---- MODULE Spec2Model ----
(***************************************************************************)
(* Kratt: the inference worker (kratt/core/worker.py, OllamaWorker) and    *)
(* the window that drives it (kratt/ui/main_window.py, MainWindow).        *)
(*                                                                         *)
(* The worker runs on its own thread; its Qt signals reach the window's    *)
(* slots through a queued connection, modelled by the sequence `queue`.    *)
(* A Python string is a sequence of one-character strings, so that strip   *)
(* and concatenation are computed; None is the string "None".              *)
(***************************************************************************)
EXTENDS Integers, Sequences, FiniteSets, TLC

\* ---------------------------------------------------------------- bounds
\* chunks a stream yields at most
MaxChunks == 2
\* chunks an agent stream made of tool calls and tool results alone yields at most,
\* in a worker run on its own
MaxDispatch == 6
\* search results the provider returns at most
MaxResults == 3
\* a message is sent while the transcript holds fewer turns than this
MaxHistory == 3

\* ------------------------------------------------------------ data
None == "None"

\* bool(x) of a str | None
Truthy(p) == p # None /\ p # ""

\* what QLineEdit.text() / user_text may hold
Texts == { <<>>, <<" ">>, <<"h">>, <<" ", "h">> }

ImagePaths == { None, "", "/img.png" }

RECURSIVE LStrip(_)
LStrip(s) == IF s # <<>> /\ Head(s) = " " THEN LStrip(Tail(s)) ELSE s

RECURSIVE RStrip(_)
RStrip(s) ==
    IF s # <<>> /\ s[Len(s)] = " " THEN RStrip(SubSeq(s, 1, Len(s) - 1)) ELSE s

\* str.strip()
Strip(s) == RStrip(LStrip(s))

\* a signal of OllamaWorker, as it is emitted
Sig(type, text, duration, count) ==
    [type |-> type, text |-> text, duration |-> duration, count |-> count]

NewToken(text)     == Sig("new_token", text, "-", 0)
StatusUpdate(text) == Sig("status_update", text, "-", 0)
Stopped            == Sig("stopped", <<>>, "-", 0)
\* finished(duration, token_count); the duration of a normal completion is the
\* elapsed time, that of an error is the literal 0
Finished(duration, count) == Sig("finished", <<>>, duration, count)

IsTerminal(s) == s.type \in {"finished", "stopped"}

\* the contents a streamed fragment may carry
Contents == { <<>>, <<"a">> }

\* chunks of agent.stream(stream_mode="messages"): (message, metadata) pairs, the
\* message an AIMessage (with or without tool calls) or a ToolMessage
ToolNames == { "search_files_tool" }

\* an AIMessage carrying tool calls, and a ToolMessage
ToolLoopChunks ==
    [type : {"ai"}, content : { <<>>, <<"a">> }, tool_calls : {<<t>> : t \in ToolNames}]
    \cup { [type |-> "tool", content |-> <<"r">>, tool_calls |-> <<>>] }

AgentChunks ==
    [type : {"ai"}, content : Contents, tool_calls : {<<>>}] \cup ToolLoopChunks

\* the chunks a long stream is made of: a tool call announced with some text, and
\* a tool result
DeepChunks ==
    { [type |-> "ai", content |-> <<"a">>, tool_calls |-> <<"search_files_tool">>],
      [type |-> "tool", content |-> <<"r">>, tool_calls |-> <<>>] }

\* chunks of ollama.chat(stream=True) and of ChatOllama.stream
TextChunks == [type : {"ai"}, content : Contents, tool_calls : {<<>>}]

\* ---------------------------------------------------------------- state
VARIABLES
    \* MainWindow
    history, full_response_buffer, current_ai_bubble, is_processing, controls_enabled,
    is_web_enabled, pending_image_path, window_worker, app_settings,
    \* the signals the window's slots have handled, in order, for the properties
    handled,
    \* OllamaWorker (the one the window last created, or the one under test)
    image_path, user_text, web_search_enabled, system_prompt, token_count,
    stop_requested,
    \* where the worker thread stands, and its locals
    pc, via_rag, raw_results, urls, context,
    \* what the environment of this specification supplies: how long a stream of
    \* tool calls may get, how many chunks any stream yields, and the prompts the
    \* settings dialog may return
    fuel, scope,
    \* a call of filter_search_results on its own, and the URLs chosen from it: its
    \* locals, where it stands, and the record of its judgments
    flt,
    \* a call of normalize_url on its own: its arguments and what it returned
    nrm,
    \* a call of WebScraper.scrape_site on its own: max_pages_per_site, the locals of
    \* the call, the pages fetched with the number collected before each and what
    \* the browser made of them, and the hrefs the loop queued a URL for
    scr,
    \* a call of WebScraper.scrape_urls on its own: self.results, the seeds, where
    \* the call stands and what it returned
    bat,
    \* a call of a file tool, directly or through execute_tool: its arguments, what
    \* the directory walk yields, and what the call returned
    tool,
    \* one RAGManager: its vector store and the calls made on it
    rag,
    \* a call of search_duckduckgo: what the provider yielded, the list built, and
    \* what the call returned
    ddg,
    \* signals emitted and not yet delivered to the window's slots
    queue,
    \* history of the run, kept for the properties
    emitted, calls, yielded, stream_end, strategy, stop_at, found, sent, sent_args,
    active

windowVars == <<history, full_response_buffer, current_ai_bubble, is_processing, controls_enabled,
                is_web_enabled, pending_image_path, window_worker, app_settings,
                handled>>
argVars    == <<image_path, user_text, web_search_enabled, system_prompt>>
ragVars    == <<raw_results, urls, context>>
logVars    == <<calls, yielded, stream_end, strategy, stop_at, found>>
libVars    == <<flt, nrm, scr, bat, tool, rag, ddg>>
envVars    == <<fuel, scope, libVars>>
vars == <<windowVars, argVars, token_count, stop_requested, pc, via_rag, ragVars,
          envVars, queue, emitted, logVars, sent, sent_args, active>>

\* fault: an empty context is left empty
PLACEHOLDER_Empty == <<>>

PLACEHOLDER == <<"No readable content could be extracted from the search results.">>

\* the stop flag as it stood when run began and when each stage returned
NoStopSeen == [start |-> "-", rewrite |-> "-", search |-> "-", fetch |-> "-"]

\* the stream may yield one more chunk: any chunk while it is short, and a longer
\* stream of tool calls and tool results alone
MayYield(chunk) ==
    \/ Len(yielded) < scope.chunks
    \/ /\ Len(yielded) < fuel
       /\ chunk \in DeepChunks
       /\ \A i \in 1..Len(yielded) : yielded[i] \in DeepChunks

\* ------------------------------------------------------ worker: helpers

\* fault: a signal is delivered ahead of those emitted before it
Emit_Lifo(sigs) ==
    /\ queue' = sigs \o queue
    /\ emitted' = emitted \o sigs
    /\ active' = IF \E i \in 1..Len(sigs) : IsTerminal(sigs[i]) THEN active - 1 ELSE active

\* Signal.emit: queued for the window, in emission order
Emit(sigs) ==
    /\ queue' = queue \o sigs
    /\ emitted' = emitted \o sigs
    /\ active' = IF \E i \in 1..Len(sigs) : IsTerminal(sigs[i]) THEN active - 1 ELSE active

\* _emit_completion
EmitCompletion == <<Finished("elapsed", token_count)>>

\* fault: the handler of run() reports the exception and emits no finished
RunExcept_NoFinished == <<NewToken(<<"\n\n**System Error:** e">>)>>

\* fault: the handler of run() reports the exception and ends the run on stopped
RunExcept_Stopped == <<NewToken(<<"\n\n**System Error:** e">>), Stopped>>

\* the handler of run(): an exception that reached run is reported and the run ends
RunExcept == <<NewToken(<<"\n\n**System Error:** e">>), Finished("0", 0)>>

\* the external calls the run has made, in order
Call(names) == calls' = calls \o names

\* fault: a checkpoint emits stopped and does not return
StopAck_NoReturn ==
    /\ Emit(<<Stopped>>)
    /\ pc' = pc

\* a checkpoint that finds the flag set: self.stopped.emit() and return
StopAck ==
    /\ Emit(<<Stopped>>)
    /\ pc' = "done"

SeeStop(stage) ==
    stop_at' = [stop_at EXCEPT ![stage] = IF stop_requested THEN "set" ELSE "clear"]

\* ------------------------------------------------------ worker: run

\* fault: run() tests the web flag before the image
Select_WebFirst(img, web, text) ==
    IF web /\ Strip(text) # <<>> THEN "rag"
    ELSE IF Truthy(img) THEN "vision"
    ELSE "agent"

\* the branch run() takes
Select(img, web, text) ==
    IF Truthy(img) THEN "vision"
    ELSE IF web /\ Strip(text) # <<>> THEN "rag"
    ELSE "agent"

Run ==
    /\ pc = "start"
    /\ strategy' = Select(image_path, web_search_enabled, user_text)
    /\ pc' = CASE strategy' = "vision" -> "v_call"
               [] strategy' = "rag"    -> "r_begin"
               [] OTHER                -> "a_build"
    /\ SeeStop("start")
    /\ UNCHANGED <<windowVars, argVars, token_count, stop_requested, via_rag, ragVars,
                   envVars, queue, emitted, calls, yielded, stream_end, found, sent, sent_args, active>>

\* ------------------------------------------------------ worker: agent

\* langchain messages
SystemMessage(content) == [type |-> "system", content |-> content]
HumanMessage(content)  == [type |-> "human", content |-> content]
AIMessage(content)     == [type |-> "ai", content |-> content]

\* _history_to_messages: the system prompt first when asked for, then a
\* HumanMessage for each user turn and an AIMessage for each assistant turn of
\* self.history, turns of another role being passed over
HistoryToMessages(include_system) ==
    LET turns == SelectSeq(sent, LAMBDA h : h.role \in { "user", "assistant" }) IN
    (IF include_system THEN <<SystemMessage(system_prompt)>> ELSE <<>>)
    \o [i \in 1..Len(turns) |-> IF turns[i].role = "user"
                                THEN HumanMessage(turns[i].content)
                                ELSE AIMessage(turns[i].content)]

\* the messages _run_agent gives agent.stream
AgentMessages == Append(HistoryToMessages(FALSE), HumanMessage(user_text))

\* the messages _run_rag_search gives chat.stream
RagMessages(rag_prompt) ==
    Append(<<SystemMessage(rag_prompt)>> \o HistoryToMessages(FALSE),
           HumanMessage(user_text))

\* build_agent and the message list; build_agent is outside the try of _run_agent
AgentBuild ==
    /\ pc = "a_build"
    /\ \E raises \in BOOLEAN :
         IF raises
         THEN /\ Call(<<"build_agent">>)
              /\ Emit(RunExcept)
              /\ pc' = "done"
         ELSE /\ Call(<<"build_agent", "agent.stream">>)
              /\ pc' = "a_stream"
              /\ UNCHANGED <<queue, emitted, active>>
    /\ UNCHANGED <<windowVars, argVars, token_count, stop_requested, via_rag, ragVars,
                   envVars, yielded, stream_end, strategy, stop_at, sent, sent_args, found>>

\* fault: the text of a tool-calling message is emitted as a token
AgentChunkSignals_ToolText(chunk) ==
    (IF chunk.type = "ai" /\ chunk.content # <<>>
     THEN <<StatusUpdate(<<>>), NewToken(chunk.content)>>
     ELSE <<>>)
    \o (IF chunk.type = "tool" THEN <<StatusUpdate(<<"*Thinking...*">>)>> ELSE <<>>)

\* what the body of the loop emits for a chunk once the stop flag was found clear
AgentChunkSignals(chunk) ==
    (IF chunk.type = "ai" /\ chunk.content # <<>>
     THEN IF chunk.tool_calls # <<>>
          THEN <<StatusUpdate(<<"*Executing ", chunk.tool_calls[1], "...*">>)>>
          ELSE <<StatusUpdate(<<>>), NewToken(chunk.content)>>
     ELSE <<>>)
    \o (IF chunk.type = "tool" THEN <<StatusUpdate(<<"*Thinking...*">>)>> ELSE <<>>)

AgentCounts(chunk) ==
    IF chunk.type = "ai" /\ chunk.content # <<>> /\ chunk.tool_calls = <<>> THEN 1 ELSE 0

\* one turn of `for chunk in agent.stream(...)`, the stream's end, or its raising
AgentStream ==
    /\ pc = "a_stream"
    /\ \/ \E chunk \in AgentChunks :
            /\ MayYield(chunk)
            /\ yielded' = Append(yielded, chunk)
            /\ IF stop_requested
               THEN /\ StopAck
                    /\ UNCHANGED token_count
               ELSE /\ Emit(AgentChunkSignals(chunk))
                    /\ token_count' = token_count + AgentCounts(chunk)
                    /\ pc' = "a_stream"
            /\ UNCHANGED stream_end
       \/ /\ stream_end' = "end"
          /\ Emit(EmitCompletion)
          /\ pc' = "done"
          /\ UNCHANGED <<yielded, token_count>>
       \/ /\ stream_end' = "raise"
          /\ Emit(<<NewToken(<<"Agent Error: e">>), Finished("0", 0)>>)
          /\ pc' = "done"
          /\ UNCHANGED <<yielded, token_count>>
    /\ UNCHANGED <<windowVars, argVars, stop_requested, via_rag, ragVars, envVars, calls,
                   strategy, stop_at, sent, sent_args, found>>

\* ------------------------------------------------------ worker: RAG
\* A local of _run_rag_search is kept for as long as the code still reads it:
\* raw_results up to the choice of URLs, urls up to the fetch, context up to the
\* prompt.

\* RAGManager() and the first status
RagBegin ==
    /\ pc = "r_begin"
    /\ Emit(<<StatusUpdate(<<"*Optimizing query...*">>)>>)
    /\ pc' = "r_rewrite"
    /\ UNCHANGED <<windowVars, argVars, token_count, stop_requested, via_rag, ragVars,
                   envVars, logVars, sent, sent_args>>

\* improve_search_query returns (it never raises), then the first checkpoint
RagRewrite ==
    /\ pc = "r_rewrite"
    /\ Call(<<"improve_search_query">>)
    /\ SeeStop("rewrite")
    /\ IF stop_requested
       THEN StopAck
       ELSE /\ Emit(<<StatusUpdate(<<"*Searching...*">>)>>)
            /\ pc' = "r_search"
    /\ UNCHANGED <<windowVars, argVars, token_count, stop_requested, via_rag, ragVars,
                   envVars, yielded, stream_end, strategy, sent, sent_args, found>>

\* fault: an empty result list is taken forward like any other
NoResults_Never(results) == FALSE

\* `if not raw_results`
NoResults(results) == results = <<>>

\* search_duckduckgo returns its list (it never raises); an empty list falls back
\* to the agent
RagSearch ==
    /\ pc = "r_search"
    /\ Call(<<"search_duckduckgo">>)
    /\ SeeStop("search")
    /\ \E n \in 0..MaxResults :
         /\ raw_results' = [i \in 1..n |-> i]
         /\ found' = (IF n = 0 THEN "empty" ELSE "some")
         /\ IF NoResults(raw_results')
            THEN /\ Emit(<<NewToken(<<"No search results found.">>)>>)
                 /\ via_rag' = TRUE
                 /\ pc' = "a_build"
            ELSE /\ pc' = "r_filter"
                 /\ UNCHANGED <<via_rag, queue, emitted, active>>
    /\ UNCHANGED <<windowVars, argVars, token_count, stop_requested, urls, context,
                   envVars, yielded, stream_end, strategy, sent, sent_args>>

\* the subsequence of s at the positions in keep
RECURSIVE Pick(_, _)
Pick(s, keep) ==
    IF s = <<>> THEN <<>>
    ELSE (IF Len(s) \in keep THEN Pick(SubSeq(s, 1, Len(s) - 1), keep) \o <<s[Len(s)]>>
          ELSE Pick(SubSeq(s, 1, Len(s) - 1), keep))

\* s[:n]
Take(s, n) == SubSeq(s, 1, IF Len(s) < n THEN Len(s) ELSE n)

\* filter_search_results, given the set of positions the model answers YES for
\* (or fails on)
FilterSearchResults(results, yes) ==
    IF Len(results) <= 2 THEN results ELSE Pick(results, yes)

\* fault: the unfiltered results are not fallen back on
ChooseUrls_NoFallback(filtered, raw) == Take(filtered, 3)

\* the URLs taken forward
ChooseUrls(filtered, raw) == Take(IF filtered # <<>> THEN filtered ELSE raw, 3)

\* filter_search_results, the choice of URLs, then the second checkpoint
RagFilter ==
    /\ pc = "r_filter"
    /\ Call(<<"filter_search_results">>)
    /\ \E yes \in SUBSET (1..Len(raw_results)) :
         urls' = ChooseUrls(FilterSearchResults(raw_results, yes), raw_results)
    /\ raw_results' = <<>>
    /\ IF stop_requested
       THEN StopAck
       ELSE /\ Emit(<<StatusUpdate(<<"*Reading content...*">>)>>)
            /\ pc' = "r_fetch"
    /\ UNCHANGED <<windowVars, argVars, token_count, stop_requested, via_rag,
                   context, envVars, yielded, stream_end, strategy, stop_at, sent, sent_args, found>>

\* scraper.scrape_urls returns its mapping (it never raises); no page read leaves
\* the context empty
RagFetch ==
    /\ pc = "r_fetch"
    /\ Call(<<"scrape_urls">>)
    /\ SeeStop("fetch")
    /\ urls' = <<>>
    /\ \E scraped_data \in BOOLEAN :
         IF scraped_data
         THEN /\ Emit(<<StatusUpdate(<<"*Analyzing content...*">>)>>)
              /\ pc' = "r_ingest"
              /\ UNCHANGED context
         ELSE /\ Emit(<<StatusUpdate(<<"*Analyzing content...*">>),
                        StatusUpdate(<<"*Generating response...*">>)>>)
              /\ context' = PLACEHOLDER
              /\ pc' = "r_gen"
    /\ UNCHANGED <<windowVars, argVars, token_count, stop_requested, via_rag,
                   raw_results, envVars, yielded, stream_end, strategy, sent, sent_args, found>>

\* rag.ingest_text returns True or False
RagIngest ==
    /\ pc = "r_ingest"
    /\ Call(<<"ingest_text">>)
    /\ \E success \in BOOLEAN :
         IF success
         THEN /\ pc' = "r_retrieve"
              /\ UNCHANGED <<context, queue, emitted, active>>
         ELSE /\ Emit(<<StatusUpdate(<<"*Generating response...*">>)>>)
              /\ context' = PLACEHOLDER
              /\ pc' = "r_gen"
    /\ UNCHANGED <<windowVars, argVars, token_count, stop_requested, via_rag,
                   raw_results, urls, envVars, yielded, stream_end, strategy, stop_at,
                   sent, sent_args, found>>

\* rag.retrieve returns the context, possibly empty
RagRetrieve ==
    /\ pc = "r_retrieve"
    /\ Call(<<"retrieve">>)
    /\ \E retrieved \in { <<>>, <<"[Source 1: u]">> } :
         context' = IF retrieved = <<>> THEN PLACEHOLDER ELSE retrieved
    /\ Emit(<<StatusUpdate(<<"*Generating response...*">>)>>)
    /\ pc' = "r_gen"
    /\ UNCHANGED <<windowVars, argVars, token_count, stop_requested, via_rag,
                   raw_results, urls, envVars, yielded, stream_end, strategy, stop_at,
                   sent, sent_args, found>>

\* ChatOllama(...) and the message list, outside the try of _run_rag_search
RagGenerate ==
    /\ pc = "r_gen"
    /\ context' = <<>>
    /\ \E raises \in BOOLEAN :
         IF raises
         THEN /\ Call(<<"ChatOllama">>)
              /\ Emit(RunExcept)
              /\ pc' = "done"
         ELSE /\ Call(<<"ChatOllama", "chat.stream">>)
              /\ pc' = "r_stream"
              /\ UNCHANGED <<queue, emitted, active>>
    /\ UNCHANGED <<windowVars, argVars, token_count, stop_requested, via_rag,
                   raw_results, urls, envVars, yielded, stream_end, strategy, stop_at,
                   sent, sent_args, found>>

\* one turn of `for chunk in chat.stream(messages)`, its end, or its raising
RagStream ==
    /\ pc = "r_stream"
    /\ \/ \E chunk \in TextChunks :
            /\ MayYield(chunk)
            /\ yielded' = Append(yielded, chunk)
            /\ IF stop_requested
               THEN /\ StopAck
                    /\ UNCHANGED token_count
               ELSE /\ Emit(<<NewToken(chunk.content)>>)
                    /\ token_count' = token_count + 1
                    /\ pc' = "r_stream"
            /\ UNCHANGED stream_end
       \/ /\ stream_end' = "end"
          /\ Emit(EmitCompletion)
          /\ pc' = "done"
          /\ UNCHANGED <<yielded, token_count>>
       \/ /\ stream_end' = "raise"
          /\ Emit(<<NewToken(<<"RAG Generation Error: e">>), Finished("0", 0)>>)
          /\ pc' = "done"
          /\ UNCHANGED <<yielded, token_count>>
    /\ UNCHANGED <<windowVars, argVars, stop_requested, via_rag, ragVars, envVars, calls,
                   strategy, stop_at, sent, sent_args, found>>

\* ------------------------------------------------------ worker: vision

\* fault: a blank text is sent as it is
VisionPrompt_Raw(text) == text

\* `self.user_text if self.user_text.strip() else "Describe this image."`
VisionPrompt(text) == IF Strip(text) # <<>> THEN text ELSE <<"Describe this image.">>

\* the arguments of ollama.chat in _run_vision_legacy
VisionRequest(text, img) ==
    [model |-> "vision_model_name",
     messages |-> << [role |-> "user", content |-> VisionPrompt(text),
                      images |-> <<img>>] >>,
     stream |-> TRUE]

\* ollama.chat(stream=True) with VisionRequest(user_text, image_path), inside the
\* try of _run_vision_legacy
VisionCall ==
    /\ pc = "v_call"
    /\ Call(<<"ollama.chat">>)
    /\ \E raises \in BOOLEAN :
         IF raises
         THEN /\ Emit(<<NewToken(<<"Vision error: e">>), Finished("0", 0)>>)
              /\ stream_end' = "raise"
              /\ pc' = "done"
         ELSE /\ pc' = "v_stream"
              /\ UNCHANGED <<queue, emitted, active, stream_end>>
    /\ UNCHANGED <<windowVars, argVars, token_count, stop_requested, via_rag, ragVars,
                   envVars, yielded, strategy, stop_at, sent, sent_args, found>>

\* one turn of `for chunk in stream`, its end, or its raising
VisionStream ==
    /\ pc = "v_stream"
    /\ \/ \E chunk \in TextChunks :
            /\ MayYield(chunk)
            /\ yielded' = Append(yielded, chunk)
            /\ IF stop_requested
               THEN /\ StopAck
                    /\ UNCHANGED token_count
               ELSE /\ token_count' = token_count + 1
                    /\ Emit(<<NewToken(chunk.content)>>)
                    /\ pc' = "v_stream"
            /\ UNCHANGED stream_end
       \/ /\ stream_end' = "end"
          /\ Emit(EmitCompletion)
          /\ pc' = "done"
          /\ UNCHANGED <<yielded, token_count>>
       \/ /\ stream_end' = "raise"
          /\ Emit(<<NewToken(<<"Vision error: e">>), Finished("0", 0)>>)
          /\ pc' = "done"
          /\ UNCHANGED <<yielded, token_count>>
    /\ UNCHANGED <<windowVars, argVars, stop_requested, via_rag, ragVars, envVars, calls,
                   strategy, stop_at, sent, sent_args, found>>

\* a step of the worker thread
WorkerStep ==
    \/ Run
    \/ AgentBuild \/ AgentStream
    \/ RagBegin \/ RagRewrite \/ RagSearch \/ RagFilter \/ RagFetch
    \/ RagIngest \/ RagRetrieve \/ RagGenerate \/ RagStream
    \/ VisionCall \/ VisionStream

\* request_stop, called from another thread
RequestStop ==
    /\ pc # "none"
    /\ ~stop_requested
    /\ stop_requested' = TRUE
    /\ UNCHANGED <<windowVars, argVars, token_count, pc, via_rag, ragVars, envVars,
                   queue, emitted, logVars, sent, sent_args, active>>

\* ---------------------------------------------------------- the window

\* app_settings["system_prompt"]: what load_settings gives, and what the settings
\* dialog can give back; the model names are held fixed
DefaultPrompt == <<"sys">>
Prompts == { <<"sys">>, <<"alt">> }

\* fault: the system turn of a new chat carries the prompt the program ships with
SystemTurn_Default == [role |-> "system", content |-> DefaultPrompt]

\* {"role": "system", "content": self.app_settings["system_prompt"]}
SystemTurn == [role |-> "system", content |-> app_settings]

\* no call of filter_search_results is under way
FilterIdle == flt = [pc |-> "idle"]

\* no call of normalize_url is under way
UrlIdle == nrm = [pc |-> "idle"]

\* no call of scrape_site is under way
ScrapeIdle == scr = [pc |-> "idle"]

\* no call of scrape_urls is under way
BatchIdle == bat = [pc |-> "idle"]

\* what a directory walk has done: the matches so far, the files counted, the
\* entries taken from rglob, the files opened, and the entry at which the matches
\* became as many as asked for (0: never)
NoWalk == [results |-> <<>>, processed_files |-> 0, walked |-> 0, opened |-> <<>>,
           full_at |-> 0]

\* no file tool is being called
ToolIdle == tool = [pc |-> "idle"]

\* RAGManager.__init__: `self.vector_store = None`
NoStore == [built |-> FALSE, docs |-> {}]

\* no RAGManager is being called
RagIdle == rag = [pc |-> "idle"]

\* no search is being made
DdgIdle == ddg = [pc |-> "idle"]

\* the functions checked on their own are not running
LibIdle == FilterIdle /\ UrlIdle /\ ScrapeIdle /\ BatchIdle /\ ToolIdle /\ RagIdle /\ DdgIdle

\* MainWindow.__init__, which ends with new_chat
WindowInit ==
    /\ app_settings = DefaultPrompt
    /\ history = <<SystemTurn>>
    /\ full_response_buffer = <<>>
    /\ current_ai_bubble = None
    /\ is_processing = FALSE
    /\ controls_enabled = TRUE
    /\ is_web_enabled = FALSE
    /\ pending_image_path = None
    /\ window_worker = None
    /\ handled = <<>>

\* OllamaWorker.__init__, and an empty record of the run
WorkerNew ==
    /\ token_count = 0
    /\ stop_requested = FALSE
    /\ via_rag = FALSE
    /\ raw_results = <<>>
    /\ urls = <<>>
    /\ context = <<>>
    /\ emitted = <<>>
    /\ calls = <<>>
    /\ yielded = <<>>
    /\ stream_end = "open"
    /\ strategy = "none"
    /\ stop_at = NoStopSeen
    /\ found = "-"

\* a fresh OllamaWorker, as __init__ leaves it, and a fresh record of its run
WorkerFresh ==
    /\ token_count' = 0
    /\ stop_requested' = FALSE
    /\ via_rag' = FALSE
    /\ raw_results' = <<>>
    /\ urls' = <<>>
    /\ context' = <<>>
    /\ emitted' = <<>>
    /\ calls' = <<>>
    /\ yielded' = <<>>
    /\ stream_end' = "open"
    /\ strategy' = "none"
    /\ stop_at' = NoStopSeen
    /\ found' = "-"

workerVars == <<argVars, token_count, stop_requested, pc, via_rag, ragVars, envVars,
                queue, emitted, logVars>>

\* fault: send_message does not look at is_processing
SendRefused_Reentrant(text) == text = <<>> /\ ~Truthy(pending_image_path)

\* send_message returns at once: nothing to send, or a run is active
SendRefused(text) == (text = <<>> /\ ~Truthy(pending_image_path)) \/ is_processing

\* send_message, with `input` in the text field
SendMessage(input) ==
    LET text == Strip(input) IN
    /\ IF SendRefused(text)
       THEN UNCHANGED <<windowVars, workerVars, sent, sent_args, active>>
       ELSE /\ Len(history) < MaxHistory
            /\ is_processing' = TRUE
            /\ controls_enabled' = FALSE
            /\ history' = Append(history, [role |-> "user", content |-> text])
            /\ full_response_buffer' = <<>>
            /\ current_ai_bubble' = "ChatBubble"
            /\ window_worker' = "OllamaWorker"
            /\ image_path' = pending_image_path
            /\ user_text' = text
            /\ web_search_enabled' = is_web_enabled
            /\ system_prompt' = app_settings
            /\ WorkerFresh
            /\ pending_image_path' = None
            /\ pc' = "start"
            /\ active' = active + 1
            /\ sent' = history'
            /\ sent_args' = <<image_path', user_text', web_search_enabled', system_prompt'>>
            /\ handled' = <<>>
            /\ UNCHANGED <<is_web_enabled, app_settings, envVars, queue>>

\* _on_send_button_clicked -> _force_stop
ForceStop ==
    /\ IF ~is_processing \/ window_worker = None
       THEN UNCHANGED stop_requested
       ELSE stop_requested' = TRUE
    /\ UNCHANGED <<windowVars, argVars, token_count, pc, via_rag, ragVars, envVars,
                   queue, emitted, logVars, sent, sent_args, active>>

\* fault: the controls stay disabled after a run
ResetUiAfterResponse_Disabled ==
    /\ is_processing' = FALSE
    /\ UNCHANGED controls_enabled

\* _reset_ui_after_response: the text field and the attach and web buttons are
\* enabled again
ResetUiAfterResponse ==
    /\ is_processing' = FALSE
    /\ controls_enabled' = TRUE

\* fault: the slot of new_token keeps the last token alone
UpdateStream_Overwrite ==
    /\ queue # <<>> /\ Head(queue).type = "new_token"
    /\ queue' = Tail(queue)
    /\ full_response_buffer' = Head(queue).text
    /\ handled' = Append(handled, Head(queue))
    /\ UNCHANGED <<history, current_ai_bubble, is_processing, controls_enabled, is_web_enabled,
                   pending_image_path, window_worker, app_settings, argVars, token_count,
                   stop_requested, pc, via_rag, ragVars, envVars, emitted, logVars,
                   sent, sent_args, active>>

\* the slot of new_token
UpdateStream ==
    /\ queue # <<>> /\ Head(queue).type = "new_token"
    /\ queue' = Tail(queue)
    /\ full_response_buffer' = full_response_buffer \o Head(queue).text
    /\ handled' = Append(handled, Head(queue))
    /\ UNCHANGED <<history, current_ai_bubble, is_processing, controls_enabled, is_web_enabled,
                   pending_image_path, window_worker, app_settings, argVars, token_count,
                   stop_requested, pc, via_rag, ragVars, envVars, emitted, logVars,
                   sent, sent_args, active>>

\* the slot of status_update: the bubble's text alone changes
UpdateStatus ==
    /\ queue # <<>> /\ Head(queue).type = "status_update"
    /\ queue' = Tail(queue)
    /\ handled' = Append(handled, Head(queue))
    /\ UNCHANGED <<history, full_response_buffer, current_ai_bubble, is_processing, controls_enabled,
                   is_web_enabled, pending_image_path, window_worker, app_settings,
                   argVars, token_count, stop_requested, pc, via_rag, ragVars, envVars,
                   emitted, logVars, sent, sent_args, active>>

\* the slot of finished
FinalizeStream ==
    /\ queue # <<>> /\ Head(queue).type = "finished"
    /\ queue' = Tail(queue)
    /\ history' = Append(history, [role |-> "assistant", content |-> full_response_buffer])
    /\ ResetUiAfterResponse
    /\ handled' = Append(handled, Head(queue))
    /\ UNCHANGED <<full_response_buffer, current_ai_bubble, is_web_enabled,
                   pending_image_path, window_worker, app_settings, argVars, token_count,
                   stop_requested, pc, via_rag, ragVars, envVars, emitted, logVars,
                   sent, sent_args, active>>

\* fault: the slot of stopped drops the partial response
OnWorkerStopped_Drop ==
    /\ queue # <<>> /\ Head(queue).type = "stopped"
    /\ queue' = Tail(queue)
    /\ ResetUiAfterResponse
    /\ handled' = Append(handled, Head(queue))
    /\ UNCHANGED <<history, full_response_buffer, current_ai_bubble, is_web_enabled,
                   pending_image_path, window_worker, app_settings, argVars, token_count,
                   stop_requested, pc, via_rag, ragVars, envVars, emitted, logVars,
                   sent, sent_args, active>>

\* the slot of stopped
OnWorkerStopped ==
    /\ queue # <<>> /\ Head(queue).type = "stopped"
    /\ queue' = Tail(queue)
    /\ history' = IF full_response_buffer # <<>>
                  THEN Append(history, [role |-> "assistant",
                                        content |-> full_response_buffer])
                  ELSE history
    /\ ResetUiAfterResponse
    /\ handled' = Append(handled, Head(queue))
    /\ UNCHANGED <<full_response_buffer, current_ai_bubble, is_web_enabled,
                   pending_image_path, window_worker, app_settings, argVars, token_count,
                   stop_requested, pc, via_rag, ragVars, envVars, emitted, logVars,
                   sent, sent_args, active>>

\* fault: the web-search button toggles the flag during a run too
ToggleWebSearch_Always ==
    /\ is_web_enabled' = ~is_web_enabled
    /\ UNCHANGED <<history, full_response_buffer, current_ai_bubble, is_processing, controls_enabled,
                   pending_image_path, window_worker, app_settings, handled,
                   workerVars, sent, sent_args, active>>

\* _toggle_web_search
ToggleWebSearch ==
    /\ is_web_enabled' = IF is_processing THEN is_web_enabled ELSE ~is_web_enabled
    /\ UNCHANGED <<history, full_response_buffer, current_ai_bubble, is_processing, controls_enabled,
                   pending_image_path, window_worker, app_settings, handled,
                   workerVars, sent, sent_args, active>>

\* _select_or_clear_file, the dialog returning `file_path` ("" when cancelled)
SelectOrClearFile(file_path) ==
    /\ IF is_processing
       THEN UNCHANGED <<pending_image_path, is_web_enabled>>
       ELSE IF Truthy(pending_image_path)
       THEN /\ pending_image_path' = None
            /\ UNCHANGED is_web_enabled
       ELSE IF file_path = ""
       THEN UNCHANGED <<pending_image_path, is_web_enabled>>
       ELSE /\ pending_image_path' = file_path
            /\ is_web_enabled' = FALSE
    /\ UNCHANGED <<history, full_response_buffer, current_ai_bubble, is_processing, controls_enabled,
                   window_worker, app_settings, handled, workerVars, sent, sent_args,
                   active>>

\* fault: new_chat does not look at is_processing
NewChatRefused_Never == FALSE

\* new_chat returns at once
NewChatRefused == is_processing

\* new_chat; the worker it deletes leaves nothing behind
NewChat ==
    IF NewChatRefused
    THEN UNCHANGED vars
    ELSE /\ window_worker' = None
         /\ history' = <<SystemTurn>>
         /\ full_response_buffer' = <<>>
         /\ current_ai_bubble' = None
         /\ pending_image_path' = None
         /\ handled' = <<>>
         /\ IF window_worker # None
            THEN /\ pc' = "none"
                 /\ image_path' = None
                 /\ user_text' = <<>>
                 /\ web_search_enabled' = FALSE
                 /\ system_prompt' = DefaultPrompt
                 /\ WorkerFresh
                 /\ sent' = <<>>
                 /\ sent_args' = <<image_path', user_text', web_search_enabled',
                                   system_prompt'>>
            ELSE UNCHANGED <<pc, argVars, token_count, stop_requested, via_rag, ragVars,
                             emitted, logVars, sent, sent_args>>
         /\ UNCHANGED <<is_processing, controls_enabled, is_web_enabled, app_settings, envVars, queue,
                        active>>

\* fault: the system turn is rewritten whatever the transcript holds
ChatIsNew_Always == TRUE

\* `if len(self.history) <= 1`: the chat is new
ChatIsNew == Len(history) <= 1

\* _open_settings: the dialog is cancelled, or accepted with `prompt` as the system
\* prompt
OpenSettings(accepted, prompt) ==
    /\ IF is_processing \/ ~accepted
       THEN UNCHANGED <<app_settings, history>>
       ELSE /\ app_settings' = prompt
            /\ history' = IF ChatIsNew
                          THEN [history EXCEPT ![1].content = prompt]
                          ELSE history
    /\ UNCHANGED <<full_response_buffer, current_ai_bubble, is_processing, controls_enabled,
                   is_web_enabled, pending_image_path, window_worker, handled,
                   workerVars, sent, sent_args, active>>

\* MainWindow.__init__ (which ends with new_chat); no worker yet
Init ==
    /\ WindowInit
    /\ WorkerNew
    /\ image_path = None
    /\ user_text = <<>>
    /\ web_search_enabled = FALSE
    /\ system_prompt = DefaultPrompt
    /\ pc = "none"
    /\ fuel = 0
    /\ scope = [chunks |-> MaxChunks, prompts |-> { DefaultPrompt }]
    /\ queue = <<>>
    /\ sent = <<>>
    /\ sent_args = <<image_path, user_text, web_search_enabled, system_prompt>>
    /\ active = 0
    /\ LibIdle

WindowStep ==
    \/ \E input \in Texts : SendMessage(input)
    \/ ForceStop
    \/ UpdateStream \/ UpdateStatus \/ FinalizeStream \/ OnWorkerStopped
    \/ ToggleWebSearch
    \/ \E file_path \in { "", "/img.png" } : SelectOrClearFile(file_path)
    \/ NewChat
    \/ \E accepted \in BOOLEAN, prompt \in scope.prompts : OpenSettings(accepted, prompt)

Next == WorkerStep \/ WindowStep

Spec == Init /\ [][Next]_vars

\* the worker thread, once started, keeps being scheduled, and the window's event
\* loop keeps delivering queued signals
FairSpec ==
    /\ Spec
    /\ WF_vars(WorkerStep)
    /\ WF_vars(UpdateStream \/ UpdateStatus \/ FinalizeStream \/ OnWorkerStopped)

\* ------------------------------------------------ a session with its settings
\* The same window and worker, the settings dialog returning any of the prompts,
\* the streams one chunk long.

InitSession ==
    /\ WindowInit
    /\ WorkerNew
    /\ image_path = None
    /\ user_text = <<>>
    /\ web_search_enabled = FALSE
    /\ system_prompt = DefaultPrompt
    /\ pc = "none"
    /\ fuel = 0
    /\ scope = [chunks |-> 1, prompts |-> Prompts]
    /\ queue = <<>>
    /\ sent = <<>>
    /\ sent_args = <<image_path, user_text, web_search_enabled, system_prompt>>
    /\ active = 0
    /\ LibIdle

SessionSpec == InitSession /\ [][Next]_vars

\* the session with the worker thread scheduled and the queued signals delivered;
\* every external call of the worker returns or raises
FairSessionSpec ==
    /\ SessionSpec
    /\ WF_vars(WorkerStep)
    /\ WF_vars(UpdateStream \/ UpdateStatus \/ FinalizeStream \/ OnWorkerStopped)

\* the histories a worker constructed directly is given: none, and one exchange
Histories ==
    { <<>>,
      << [role |-> "user", content |-> <<"h">>],
         [role |-> "assistant", content |-> <<"a">>] >> }

\* ------------------------------------------------ a worker on its own
\* OllamaWorker(history, model, vision_model, system_prompt, image_path, user_text,
\* web_search_enabled) constructed directly and started; request_stop may come at
\* any moment, before run begins included.

InitAlone ==
    /\ WindowInit
    /\ WorkerNew
    /\ image_path \in ImagePaths
    /\ user_text \in Texts
    /\ web_search_enabled \in BOOLEAN
    /\ system_prompt = DefaultPrompt
    /\ pc = "start"
    /\ fuel = MaxDispatch
    /\ scope = [chunks |-> MaxChunks, prompts |-> { DefaultPrompt }]
    /\ queue = <<>>
    /\ sent \in Histories
    /\ sent_args = <<image_path, user_text, web_search_enabled, system_prompt>>
    /\ active = 1
    /\ LibIdle

NextAlone == WorkerStep \/ RequestStop

WorkerSpec == InitAlone /\ [][NextAlone]_vars

\* the thread, once started, keeps being scheduled
FairWorkerSpec == WorkerSpec /\ WF_vars(WorkerStep)

\* ------------------------------------------------ functions on their own
\* The functions of kratt/core/web_search.py are checked one call at a time, the
\* window and the worker standing as __init__ left them.

mainVars == <<windowVars, argVars, token_count, stop_requested, pc, via_rag, ragVars,
              fuel, scope, queue, emitted, logVars, sent, sent_args, active>>

Parked ==
    /\ WindowInit
    /\ WorkerNew
    /\ image_path = None
    /\ user_text = <<>>
    /\ web_search_enabled = FALSE
    /\ system_prompt = DefaultPrompt
    /\ pc = "none"
    /\ fuel = 0
    /\ scope = [chunks |-> MaxChunks, prompts |-> { DefaultPrompt }]
    /\ queue = <<>>
    /\ sent = <<>>
    /\ sent_args = <<image_path, user_text, web_search_enabled, system_prompt>>
    /\ active = 0

\* ---------------------------------------------- filter_search_results

\* str.upper(), on the characters a judgment is made of
UpperChar(c) ==
    CASE c = "y" -> "Y" [] c = "e" -> "E" [] c = "s" -> "S"
      [] c = "n" -> "N" [] c = "o" -> "O" [] OTHER -> c

Upper(s) == [i \in 1..Len(s) |-> UpperChar(s[i])]

\* `sub in s`
Contains(s, sub) ==
    \E k \in 0..(Len(s) - Len(sub)) : SubSeq(s, k + 1, k + Len(sub)) = sub

\* response['response'] of a relevance call
Responses ==
    { <<"Y", "E", "S">>, <<" ", "y", "e", "s", ".">>, <<"N", "O">>, <<>> }

\* what ollama.generate does when asked for a judgment: it answers, or it raises
Outcomes ==
    [raises : {FALSE}, response : Responses] \cup { [raises |-> TRUE, response |-> <<>>] }

\* fault: the lists of one and two results are judged like the longer ones
FewResults_Never(results) == FALSE

\* `if len(results) <= 2`
FewResults(results) == Len(results) <= 2

\* fault: an item whose judgment failed is dropped
Keeps_Strict(outcome) ==
    ~outcome.raises /\ Contains(Upper(Strip(outcome.response)), <<"Y", "E", "S">>)

\* the item is appended: "YES" is in the stripped, upper-cased response, or the
\* call raised
Keeps(outcome) ==
    outcome.raises \/ Contains(Upper(Strip(outcome.response)), <<"Y", "E", "S">>)

\* the call, and its early return
FilterCall ==
    /\ flt.pc = "call"
    /\ flt' = IF FewResults(flt.results)
              THEN [flt EXCEPT !.pc = "returned", !.ret = flt.results]
              ELSE [flt EXCEPT !.pc = "loop", !.i = 1]
    /\ UNCHANGED <<mainVars, nrm, scr, bat, tool, rag, ddg>>

\* one turn of `for item in results`: the relevance call and what follows it
FilterJudge ==
    /\ flt.pc = "loop"
    /\ flt.i <= Len(flt.results)
    /\ \E outcome \in Outcomes :
         flt' = [flt EXCEPT !.answers = Append(@, outcome),
                            !.filtered_results =
                                IF Keeps(outcome) THEN Append(@, flt.results[flt.i]) ELSE @,
                            !.i = @ + 1]
    /\ UNCHANGED <<mainVars, nrm, scr, bat, tool, rag, ddg>>

\* `return filtered_results`
FilterReturn ==
    /\ flt.pc = "loop"
    /\ flt.i > Len(flt.results)
    /\ flt' = [flt EXCEPT !.pc = "returned", !.ret = flt.filtered_results]
    /\ UNCHANGED <<mainVars, nrm, scr, bat, tool, rag, ddg>>

\* _run_rag_search, the results not empty: the URLs of the results taken forward
CarryUrls ==
    /\ flt.pc = "returned"
    /\ ~NoResults(flt.results)
    /\ flt' = [flt EXCEPT !.pc = "chosen", !.urls = ChooseUrls(flt.ret, flt.results)]
    /\ UNCHANGED <<mainVars, nrm, scr, bat, tool, rag, ddg>>

\* search results at most
MaxItems == 4

InitFilter ==
    /\ Parked
    /\ DdgIdle
    /\ RagIdle
    /\ ToolIdle
    /\ UrlIdle
    /\ ScrapeIdle
    /\ BatchIdle
    /\ \E n \in 0..MaxItems :
         flt = [pc |-> "call", results |-> [i \in 1..n |-> i], filtered_results |-> <<>>,
                i |-> 0, answers |-> <<>>, ret |-> <<>>, urls |-> <<>>]

NextFilter == FilterCall \/ FilterJudge \/ FilterReturn \/ CarryUrls

FilterSpec == InitFilter /\ [][NextFilter]_vars

\* ---------------------------------------------- normalize_url
\* A URL is a sequence of tokens: a scheme, "://", the tokens of the network
\* location, of the path, of the parameters of its last segment, of the query and
\* of the fragment. urlparse finds the parts again by their delimiters.

\* str.lower(), on the tokens a URL is made of
LowerTok(t) ==
    CASE t = "HTTP" -> "http" [] t = "HTTPS" -> "https"
      [] t = ".PNG" -> ".png" [] t = ".Js" -> ".js" [] OTHER -> t

\* the first position of s that holds one of toks, Len(s) + 1 when none does
RECURSIVE IndexOf(_, _)
IndexOf(s, toks) ==
    IF s = <<>> \/ Head(s) \in toks THEN 1 ELSE 1 + IndexOf(Tail(s), toks)

Before(s, toks) == SubSeq(s, 1, IndexOf(s, toks) - 1)
From(s, toks)   == SubSeq(s, IndexOf(s, toks), Len(s))

\* urllib.parse.urlparse: the scheme lower-cased, the network location up to the
\* first "/", "?" or "#", then the fragment, the query and the parameters split off
UrlParse(url) ==
    LET absolute == Len(url) >= 2 /\ url[2] = "://"
        rest     == IF absolute THEN SubSeq(url, 3, Len(url)) ELSE url
        netloc   == IF absolute THEN Before(rest, {"/", "?", "#"}) ELSE <<>>
        tail     == SubSeq(rest, Len(netloc) + 1, Len(rest))
        nofrag   == Before(tail, {"#"})
        noquery  == Before(nofrag, {"?"})
    IN  [scheme   |-> IF absolute THEN LowerTok(url[1]) ELSE "",
         netloc   |-> netloc,
         path     |-> Before(noquery, {";"}),
         params   |-> From(noquery, {";"}),
         query    |-> From(nofrag, {"?"}),
         fragment |-> From(tail, {"#"})]

\* skip_ext
SkipExt == { ".jpg", ".png", ".gif", ".pdf", ".zip", ".css", ".js", ".svg", ".webp" }

\* fault: the extension is compared as it is written
SkipsPath_CaseSensitive(path) == path # <<>> /\ path[Len(path)] \in SkipExt

\* parsed.path.lower().endswith(skip_ext)
SkipsPath(path) == path # <<>> /\ LowerTok(path[Len(path)]) \in SkipExt

\* the None that normalize_url returns
NoUrl == <<None>>

\* fault: the network location of the URL is not compared with the domain
NormalizeUrl_AnyHost(url, domain) ==
    LET parsed == UrlParse(url) IN
    IF parsed.scheme \notin { "http", "https" } THEN NoUrl
    ELSE IF SkipsPath(parsed.path) THEN NoUrl
    ELSE <<parsed.scheme, "://">> \o parsed.netloc \o parsed.path

NormalizeUrl(url, domain) ==
    LET parsed == UrlParse(url) IN
    IF parsed.scheme \notin { "http", "https" } \/ parsed.netloc # domain THEN NoUrl
    ELSE IF SkipsPath(parsed.path) THEN NoUrl
    ELSE <<parsed.scheme, "://">> \o parsed.netloc \o parsed.path

\* the parts a URL is written from
Schemes   == { "http", "HTTPS", "ftp" }
Netlocs   == { <<"ex.com">>, <<"ex.com", ":80">>, <<"other.org">> }
Paths     == { <<>>, <<"/">>, <<"/", "a">>, <<"/", "a", ".PNG">>, <<"/", "a", ".Js">>,
               <<"/", "a", ".js", "on">>, <<"/", "a", ".zip">> }
Queries   == { <<>>, <<"?", "q">>, <<"?", "q", ".png">> }
Fragments == { <<>>, <<"#", "f">> }

\* absolute URLs, and the relative references an href may be left as
UrlParts ==
    { p \in [scheme : Schemes, netloc : Netlocs, path : Paths,
             params : { <<>>, <<";", "p">> }, query : Queries, fragment : Fragments] :
        p.params # <<>> => p.path # <<>> }
    \cup [scheme : {""}, netloc : {<<>>}, path : { <<"/", "a">> }, params : {<<>>},
          query : Queries, fragment : Fragments]

\* the URL as it is written
Unparse(p) ==
    (IF p.scheme = "" THEN <<>> ELSE <<p.scheme, "://">> \o p.netloc)
    \o p.path \o p.params \o p.query \o p.fragment

\* urlparse(start_url).netloc of a seed
Domains == { <<"ex.com">>, <<"ex.com", ":80">> }

\* normalize_url(url, domain)
NormalizeCall ==
    /\ nrm.pc = "call"
    /\ nrm' = [nrm EXCEPT !.pc = "returned", !.ret = NormalizeUrl(nrm.url, nrm.domain)]
    /\ UNCHANGED <<mainVars, flt, scr, bat, tool, rag, ddg>>

\* normalize_url applied to the URL it returned
NormalizeAgain ==
    /\ nrm.pc = "returned"
    /\ nrm.ret # NoUrl
    /\ nrm' = [nrm EXCEPT !.pc = "again", !.again = NormalizeUrl(nrm.ret, nrm.domain)]
    /\ UNCHANGED <<mainVars, flt, scr, bat, tool, rag, ddg>>

InitUrl ==
    /\ Parked
    /\ DdgIdle
    /\ RagIdle
    /\ ToolIdle
    /\ FilterIdle
    /\ ScrapeIdle
    /\ BatchIdle
    /\ \E p \in UrlParts, domain \in Domains :
         nrm = [pc |-> "call", parts |-> p, url |-> Unparse(p), domain |-> domain,
                ret |-> <<>>, again |-> <<>>]

NextUrl == NormalizeCall \/ NormalizeAgain

UrlSpec == InitUrl /\ [][NextUrl]_vars

\* ---------------------------------------------- WebScraper.scrape_site
\* The pages of the site are what the browser makes of them at each visit: goto
\* or an extraction raises, or the page gives a text too short to keep or a text
\* that is kept, and a list of body links out of a finite set of hrefs.

\* pages a scraper is asked for at most
MaxPages == 2
\* body links a page shows at most
MaxLinks == 2

\* start_url: a landing page, and a page given with its query string
Seeds ==
    { <<"http", "://", "ex.com", "/">>, <<"http", "://", "ex.com", "/", "a", "?", "q">> }

\* a.href of the links of the site: pages of the site with and without a query or a
\* fragment, a page of another site, and an archive
Hrefs ==
    { <<"http", "://", "ex.com", "/", "a">>,
      <<"http", "://", "ex.com", "/", "a", "?", "q">>,
      <<"http", "://", "ex.com", "/", "b", "#", "f">>,
      <<"http", "://", "ex.com", "/", "c">>,
      <<"http", "://", "other.org", "/", "a">>,
      <<"http", "://", "ex.com", "/", "a", ".zip">> }

\* the link of the site's navigation bar, in the header of every page and in no
\* page's body
NavHref == <<"http", "://", "ex.com", "/", "nav">>

\* links["body"]: at most `most` hrefs in document order, each once
Bodies(most) ==
    UNION { { b \in [1..n -> Hrefs] : \A i \in 1..n : \A j \in 1..n : i # j => b[i] # b[j] }
            : n \in 0..most }

\* fault: the sort turns the order of the candidates of one rank round
SortByRank_Backwards(q) ==
    [i \in 1..Len(q) |-> q[Len(q) + 1 - i]]

\* queue.sort(key=lambda x: x[0]): stable, the ranks being 0 and 1
SortByRank(q) ==
    SelectSeq(q, LAMBDA e : e[1] = 0) \o SelectSeq(q, LAMBDA e : e[1] = 1)

\* `for href in links["body"]`: the links of the site not seen yet are marked
\* visited and queued with rank 1
RECURSIVE FollowLinks(_, _, _, _, _)
FollowLinks(body, domain, visited, candidates, origin) ==
    IF body = <<>>
    THEN [visited |-> visited, queue |-> candidates, origin |-> origin]
    ELSE LET normalized == NormalizeUrl(Head(body), domain) IN
         IF normalized # NoUrl /\ normalized \notin visited
         THEN FollowLinks(Tail(body), domain, visited \cup { normalized },
                          Append(candidates, <<1, normalized>>),
                          origin \cup { Head(body) })
         ELSE FollowLinks(Tail(body), domain, visited, candidates, origin)

\* fault: the loop goes on for as long as the queue holds a candidate
Looping_QueueOnly == scr.queue # <<>>

\* `while queue and len(site_results) < self.max_pages_per_site`
Looping ==
    /\ scr.queue # <<>>
    /\ Cardinality(scr.site_results) < scr.max_pages_per_site

\* fault: the links of the header are followed like those of the body
LinksRead_Header(links) == links.body \o links.header

\* links["body"]; those of the header and the footer are not read
LinksRead(links) == links.body

\* fault: an exception of goto or of an extraction leaves scrape_site
PageErrorCaught_Never == FALSE

\* `except Exception as e` inside the loop
PageErrorCaught == TRUE

\* the locals of scrape_site as its loop begins, the pages of the site showing at
\* most `links` body links each
SiteLocals(max, start_url, links) ==
    [pc |-> "loop", max_pages_per_site |-> max, start_url |-> start_url,
     domain |-> UrlParse(start_url).netloc, visited |-> { start_url },
     site_results |-> {}, queue |-> << <<0, start_url>> >>, fetched |-> <<>>,
     origin |-> {}, links |-> links]

\* one turn of the loop. An exception raised by extract_links_prioritized leaves
\* what a kept text and no link leave.
ScrapeTurn ==
    /\ scr.pc = "loop"
    /\ Looping
    /\ LET sorted == SortByRank(scr.queue)
           url    == sorted[1][2]
       IN  \E page \in { "raises", "short", "text" }, body \in Bodies(scr.links) :
             LET kept  == IF page = "text" THEN scr.site_results \cup { url }
                          ELSE scr.site_results
                 links == IF page # "raises" /\ Cardinality(kept) < scr.max_pages_per_site
                          THEN LinksRead([body |-> body, header |-> <<NavHref>>])
                          ELSE <<>>
                 next  == FollowLinks(links, scr.domain, scr.visited, Tail(sorted),
                                      scr.origin)
                 log   == Append(scr.fetched,
                                 [url |-> url, had |-> Cardinality(scr.site_results),
                                  page |-> page])
             IN  scr' = [scr EXCEPT !.pc = IF page = "raises" /\ ~PageErrorCaught
                                          THEN "raised" ELSE @,
                                    !.site_results = kept,
                                    !.visited = next.visited,
                                    !.queue = next.queue,
                                    !.fetched = log,
                                    !.origin = next.origin]
    /\ UNCHANGED <<mainVars, flt, nrm, bat, tool, rag, ddg>>

\* `return site_results`
ScrapeReturn ==
    /\ scr.pc = "loop"
    /\ ~Looping
    /\ scr' = [scr EXCEPT !.pc = "returned"]
    /\ UNCHANGED <<mainVars, flt, nrm, bat, tool, rag, ddg>>

\* WebScraper(max_pages_per_site), then scrape_site(start_url, page) up to its loop
InitScrape ==
    /\ Parked
    /\ DdgIdle
    /\ RagIdle
    /\ ToolIdle
    /\ FilterIdle
    /\ UrlIdle
    /\ BatchIdle
    /\ \E max \in 0..MaxPages, start_url \in Seeds :
         scr = SiteLocals(max, start_url, MaxLinks)

NextScrape == ScrapeTurn \/ ScrapeReturn

ScrapeSpec == InitScrape /\ [][NextScrape]_vars

\* the call keeps running
FairScrapeSpec == ScrapeSpec /\ WF_vars(NextScrape)

\* ---------------------------------------------- WebScraper.scrape_urls
\* A call on a new WebScraper: the browser is launched, scrape_site is run for
\* each seed in turn on pages that show one body link at most, and self.results
\* is returned; and a sequence of at most MaxBatches such calls on the one
\* scraper. Of each call the pages it collected are kept for the properties.

\* seeds a call is given at most
MaxSeeds == 2
\* calls of scrape_urls made on one scraper at most
MaxBatches == 2

\* `if not urls: return {}`, else the launch of the browser, which may raise
BatchCall ==
    /\ bat.pc = "call"
    /\ \E launch_raises \in BOOLEAN :
         bat' = IF bat.urls = <<>>
                THEN [bat EXCEPT !.pc = "returned", !.ret = {}]
                ELSE IF launch_raises
                THEN [bat EXCEPT !.pc = "returned", !.ret = bat.results,
                                 !.critical = "launch"]
                ELSE [bat EXCEPT !.pc = "next", !.k = 1]
    /\ UNCHANGED <<mainVars, flt, nrm, scr, tool, rag, ddg>>

\* `for url in urls`: scrape_site is called for the next seed
SiteBegin ==
    /\ bat.pc = "next"
    /\ bat.k <= Len(bat.urls)
    /\ bat' = [bat EXCEPT !.pc = "site"]
    /\ scr' = SiteLocals(scr.max_pages_per_site, bat.urls[bat.k], 1)
    /\ UNCHANGED <<mainVars, flt, nrm, tool, rag, ddg>>

\* scrape_site has returned and self.results.update takes its mapping; an
\* exception that left scrape_site ends the loop in the handler of scrape_urls
SiteEnd ==
    /\ bat.pc = "site"
    /\ scr.pc \in { "returned", "raised" }
    /\ bat' = IF scr.pc = "raised"
              THEN [bat EXCEPT !.pc = "returned", !.ret = bat.results,
                               !.critical = "site"]
              ELSE [bat EXCEPT !.pc = "next", !.k = @ + 1,
                               !.results = @ \cup scr.site_results,
                               !.errors = IF \E i \in 1..Len(scr.fetched) :
                                               scr.fetched[i].page = "raises"
                                          THEN 1 ELSE @,
                               !.pages = @ \cup { scr.fetched[i].url :
                                                    i \in { j \in 1..Len(scr.fetched) :
                                                              scr.fetched[j].page = "text" } },
                               !.now = @ \cup { scr.fetched[i].url :
                                                  i \in { j \in 1..Len(scr.fetched) :
                                                            scr.fetched[j].page = "text" } }]
    /\ UNCHANGED <<mainVars, flt, nrm, scr, tool, rag, ddg>>

\* browser.close(), which may raise into the handler, and `return self.results`
BatchReturn ==
    /\ bat.pc = "next"
    /\ bat.k > Len(bat.urls)
    /\ \E close_raises \in BOOLEAN :
         bat' = [bat EXCEPT !.pc = "returned", !.ret = bat.results,
                            !.critical = IF close_raises THEN "close" ELSE @]
    /\ UNCHANGED <<mainVars, flt, nrm, scr, tool, rag, ddg>>

\* the lists of at most MaxSeeds seeds
SeedLists == UNION { [1..n -> Seeds] : n \in 0..MaxSeeds }

\* scrape_urls(urls) is called again on the same WebScraper: self.results is what
\* the calls before left
BatchAgain ==
    /\ bat.pc = "returned"
    /\ bat.nth < MaxBatches
    /\ \E seeds \in SeedLists :
         bat' = [bat EXCEPT !.pc = "call", !.urls = seeds, !.k = 0, !.ret = {},
                            !.critical = "none", !.errors = 0, !.now = {},
                            !.nth = @ + 1]
    /\ UNCHANGED <<mainVars, flt, nrm, scr, tool, rag, ddg>>

\* WebScraper(max_pages_per_site) and scrape_urls(urls), with the one page per
\* site that is the default and what the worker asks for, or with none
InitBatch ==
    /\ Parked
    /\ DdgIdle
    /\ RagIdle
    /\ ToolIdle
    /\ FilterIdle
    /\ UrlIdle
    /\ \E max \in 0..1, seeds \in SeedLists :
         /\ scr = [pc |-> "idle", max_pages_per_site |-> max, start_url |-> <<>>,
                   domain |-> <<>>, visited |-> {}, site_results |-> {}, queue |-> <<>>,
                   fetched |-> <<>>, origin |-> {}, links |-> 0]
         /\ bat = [pc |-> "call", urls |-> seeds, k |-> 0, results |-> {}, ret |-> {},
                   critical |-> "none", errors |-> 0, pages |-> {}, now |-> {},
                   nth |-> 1]

NextBatch ==
    BatchCall \/ SiteBegin \/ ScrapeTurn \/ ScrapeReturn \/ SiteEnd \/ BatchReturn

BatchSpec == InitBatch /\ [][NextBatch]_vars

\* a sequence of calls on the one scraper
NextRepeat == NextBatch \/ BatchAgain

RepeatSpec == InitBatch /\ [][NextRepeat]_vars

\* -------------------------------------------- tools.py: the file tools
\* search_files, find_files and execute_tool, each called once on a directory
\* whose recursive glob yields a listing of at most MaxEntries entries. A path is
\* "dir" (a directory), "file" (anything else that can be resolved) or None; a
\* pattern is a string of at most one character, or None; a line of a file is the
\* sequence of its characters without the line end.

\* entries a recursive glob yields at most
MaxEntries == 3

\* the largest max_results asked for
MaxLimit == 2

\* patterns: not a string, a blank, a letter, an unbalanced parenthesis (not a
\* regular expression), and the dot that matches any character
Patterns == { None, " ", "a", "(", "." }

\* the contents of the files: lines of characters
Files ==
    { <<>>, << <<"a">> >>, << <<"(">> >>, << <<"a">>, <<"(">> >>,
      << <<"a", "(">>, <<"a">> >> }

\* what rglob yields: directories, files that cannot be opened, files with lines
Entries ==
    { [kind |-> "dir", readable |-> FALSE, lines |-> <<>>],
      [kind |-> "file", readable |-> FALSE, lines |-> <<>>] }
    \cup [kind : { "file" }, readable : { TRUE }, lines : Files]

\* the listings of at most MaxEntries entries
Listings == UNION { [1..n -> Entries] : n \in 0..MaxEntries }

\* pattern.strip() is empty
Blank(pattern) == pattern = " " \/ pattern = ""

\* fault: the re.error of a pattern that re.compile rejects is not handled
Compile_NoFallback(pattern) ==
    [source |-> pattern, literal |-> FALSE, compiled |-> pattern # "("]

\* re.compile(pattern), and re.compile(re.escape(pattern)) when that raises re.error
Compile(pattern) ==
    [source |-> pattern, literal |-> pattern = "(", compiled |-> TRUE]

\* regex.search(line), the line end being no match for the dot
Search(regex, line) ==
    IF ~regex.literal /\ regex.source = "."
    THEN line # <<>>
    ELSE \E i \in 1..Len(line) : line[i] = regex.source

\* the lines of one file from line n on: each match is appended, and reading stops
\* when the matches are as many as asked for
RECURSIVE ReadLines(_, _, _, _, _, _)
ReadLines(lines, n, regex, max_results, results, file) ==
    IF n > Len(lines) THEN results
    ELSE IF Search(regex, lines[n])
    THEN LET more == Append(results, [file |-> file, line_num |-> n, line |-> lines[n]])
         IN  IF Len(more) >= max_results THEN more
             ELSE ReadLines(lines, n + 1, regex, max_results, more, file)
    ELSE ReadLines(lines, n + 1, regex, max_results, results, file)

\* the loop of search_files over rglob from entry i on: an entry that is no file
\* is passed over; a file is counted, and the loop is left if the matches are as
\* many as asked for; a file that cannot be opened is skipped
RECURSIVE SearchWalk(_, _, _, _, _)
SearchWalk(listing, i, regex, max_results, walk) ==
    IF i > Len(listing) THEN walk
    ELSE IF listing[i].kind # "file"
    THEN SearchWalk(listing, i + 1, regex, max_results, [walk EXCEPT !.walked = i])
    ELSE LET counted == [walk EXCEPT !.walked = i, !.processed_files = @ + 1]
         IN  IF Len(walk.results) >= max_results THEN counted
             ELSE IF ~listing[i].readable
             THEN SearchWalk(listing, i + 1, regex, max_results, counted)
             ELSE LET got == ReadLines(listing[i].lines, 1, regex, max_results,
                                       walk.results, i)
                  IN  SearchWalk(listing, i + 1, regex, max_results,
                                 [counted EXCEPT !.results = got,
                                                 !.opened = Append(@, i),
                                                 !.full_at = IF Len(got) >= max_results
                                                             THEN i ELSE 0])

\* the loop of find_files over rglob from entry i on
RECURSIVE FindWalk(_, _, _, _)
FindWalk(listing, i, max_results, walk) ==
    IF i > Len(listing) THEN walk
    ELSE IF listing[i].kind = "file"
    THEN LET more == Append(walk.results, [file |-> i, line_num |-> 0, line |-> <<>>])
             taken == [walk EXCEPT !.walked = i, !.results = more,
                                   !.full_at = IF Len(more) >= max_results THEN i ELSE 0]
         IN  IF Len(more) >= max_results THEN taken
             ELSE FindWalk(listing, i + 1, max_results, taken)
    ELSE FindWalk(listing, i + 1, max_results, [walk EXCEPT !.walked = i])

\* fault: the entries of the text are numbered from 0
Numbered_FromZero(results) ==
    [i \in 1..Len(results) |-> [index |-> i - 1, result |-> results[i]]]

\* `for i, result in enumerate(results, 1)`: the entries of the text
Numbered(results) ==
    [i \in 1..Len(results) |-> [index |-> i, result |-> results[i]]]

\* a text without entries: its first words and what it quotes
Message(kind, about) == [kind |-> kind, about |-> about, items |-> <<>>, more |-> FALSE]

\* search_files(pattern, path, file_pattern, max_results): the text returned and
\* the walk made. Path(None) and None.strip() raise into `except Exception`.
SearchFiles(pattern, path, listing, max_results) ==
    IF path = None THEN [text |-> Message("Error during search: ", None), walk |-> NoWalk]
    ELSE IF path # "dir"
    THEN [text |-> Message("Error: not a valid directory", path), walk |-> NoWalk]
    ELSE IF pattern = None
    THEN [text |-> Message("Error during search: ", None), walk |-> NoWalk]
    ELSE IF Blank(pattern)
    THEN [text |-> Message("Error: Search pattern cannot be empty.", None), walk |-> NoWalk]
    ELSE IF ~Compile(pattern).compiled
    THEN [text |-> Message("Error during search: ", None), walk |-> NoWalk]
    ELSE LET walk == SearchWalk(listing, 1, Compile(pattern), max_results, NoWalk)
         IN  IF walk.results = <<>>
             THEN [text |-> Message("No matches found for pattern", pattern), walk |-> walk]
             ELSE [text |-> [kind |-> "Search results:", about |-> None,
                             items |-> Numbered(walk.results),
                             more |-> walk.processed_files > 0
                                        /\ Len(walk.results) >= max_results],
                   walk |-> walk]

\* find_files(name_pattern, path, max_results)
FindFiles(name_pattern, path, listing, max_results) ==
    IF path = None THEN [text |-> Message("Error during search: ", None), walk |-> NoWalk]
    ELSE IF path # "dir"
    THEN [text |-> Message("Error: not a valid directory", path), walk |-> NoWalk]
    ELSE IF name_pattern = None
    THEN [text |-> Message("Error during search: ", None), walk |-> NoWalk]
    ELSE IF Blank(name_pattern)
    THEN [text |-> Message("Error: File name pattern cannot be empty.", None),
          walk |-> NoWalk]
    ELSE LET walk == FindWalk(listing, 1, max_results, NoWalk)
         IN  IF walk.results = <<>>
             THEN [text |-> Message("No files found matching", name_pattern), walk |-> walk]
             ELSE [text |-> [kind |-> "Found files:", about |-> None,
                             items |-> Numbered(walk.results),
                             more |-> Len(walk.results) >= max_results],
                   walk |-> walk]

\* the names execute_tool is called with
ToolCallNames == { "search_files", "find_files", "grep" }

\* fault: a name that is not known runs search_files
ExecuteTool_RunsAnyway(tool_name, pattern, path, listing, max_results) ==
    IF tool_name = "find_files" THEN FindFiles(pattern, path, listing, max_results)
    ELSE SearchFiles(pattern, path, listing, max_results)

\* execute_tool(tool_name, **kwargs)
ExecuteTool(tool_name, pattern, path, listing, max_results) ==
    IF tool_name = "search_files" THEN SearchFiles(pattern, path, listing, max_results)
    ELSE IF tool_name = "find_files" THEN FindFiles(pattern, path, listing, max_results)
    ELSE [text |-> Message("Unknown tool: ", tool_name), walk |-> NoWalk]

\* execute_tool is called and returns
ToolExecute ==
    /\ tool.pc = "call"
    /\ tool.via = "execute_tool"
    /\ tool' = [tool EXCEPT !.pc = "returned",
                            !.ret = ExecuteTool(tool.name, tool.pattern, tool.path,
                                                tool.listing, tool.max_results)]
    /\ UNCHANGED <<mainVars, flt, nrm, scr, bat, rag, ddg>>

\* search_files is called and returns
SearchCall ==
    /\ tool.pc = "call"
    /\ tool.via = "direct"
    /\ tool.name = "search_files"
    /\ tool' = [tool EXCEPT !.pc = "returned",
                            !.ret = SearchFiles(tool.pattern, tool.path, tool.listing,
                                                tool.max_results)]
    /\ UNCHANGED <<mainVars, flt, nrm, scr, bat, rag, ddg>>

\* find_files is called and returns
FindCall ==
    /\ tool.pc = "call"
    /\ tool.via = "direct"
    /\ tool.name = "find_files"
    /\ tool' = [tool EXCEPT !.pc = "returned",
                            !.ret = FindFiles(tool.pattern, tool.path, tool.listing,
                                              tool.max_results)]
    /\ UNCHANGED <<mainVars, flt, nrm, scr, bat, rag, ddg>>

\* the calls: a path that is no directory has no listing
InitTool ==
    /\ Parked
    /\ DdgIdle
    /\ RagIdle
    /\ FilterIdle
    /\ UrlIdle
    /\ ScrapeIdle
    /\ BatchIdle
    /\ \E via \in { "execute_tool", "direct" }, name \in ToolCallNames,
          pattern \in Patterns, path \in { "dir", "file", None },
          listing \in Listings, max_results \in 1..MaxLimit :
         /\ via = "direct" => name # "grep"
         /\ path # "dir" => listing = <<>>
         /\ tool = [pc |-> "call", via |-> via, name |-> name, pattern |-> pattern,
                    path |-> path, listing |-> listing, max_results |-> max_results,
                    ret |-> [text |-> "none", walk |-> NoWalk]]

NextTool == ToolExecute \/ SearchCall \/ FindCall

ToolSpec == InitTool /\ [][NextTool]_vars

\* ---------------------------------------------------- lc/rag.py: RAGManager
\* One RAGManager and at most MaxCalls calls of ingest_text and retrieve on it. A
\* text is the sequence of its paragraphs, each short enough for one chunk; the
\* index holds the chunks it was built from, and a retrieval that succeeds
\* returns them all, the store never holding more than RAG_TOP_K.

\* calls made on one manager at most
MaxCalls == 3

\* text_data: nothing, one page without text, one page, two pages
TextData ==
    { <<>>,
      [s \in { "u1" } |-> <<>>],
      [s \in { "u1" } |-> <<"p", "q">>],
      [s \in { "u1", "u2" } |-> IF s = "u1" THEN <<"p">> ELSE <<"q">>] }

\* text_splitter.split_documents(documents): a chunk for each paragraph, with the
\* source of its text
SplitDocuments(text_data) ==
    UNION { { [source |-> s, page_content |-> text_data[s][i]] :
                i \in 1..Len(text_data[s]) } : s \in DOMAIN text_data }

\* fault: the store is assigned before the embedding is known to have succeeded
Embedded_Anyway(store, splits, embed_raises) == [built |-> TRUE, docs |-> splits]

\* `self.vector_store = FAISS.from_documents(splits, embeddings)` inside try
Embedded(store, splits, embed_raises) ==
    IF embed_raises THEN store ELSE [built |-> TRUE, docs |-> splits]

\* ingest_text(text_data)
IngestText ==
    /\ rag.pc = "ready"
    /\ Len(rag.log) < MaxCalls
    /\ \E text_data \in TextData, embed_raises \in BOOLEAN :
         LET splits == SplitDocuments(text_data)
             reached == DOMAIN text_data # {} /\ splits # {}
         IN  /\ embed_raises => reached
             /\ rag' = [rag EXCEPT
                  !.vector_store = IF reached THEN Embedded(@, splits, embed_raises)
                                   ELSE @,
                  !.log = Append(@, [op |-> "ingest_text", arg |-> text_data,
                                     raised |-> embed_raises,
                                     ret |-> IF reached /\ ~embed_raises
                                             THEN "True" ELSE "False"])]
    /\ UNCHANGED <<mainVars, flt, nrm, scr, bat, tool, ddg>>

\* retrieve(query): the text returned is the set of the blocks "[Source i: ...]"
\* it is made of, the empty set for the empty string
Retrieve ==
    /\ rag.pc = "ready"
    /\ Len(rag.log) < MaxCalls
    /\ \E query \in { "x", "y" }, invoke_raises \in BOOLEAN :
         /\ invoke_raises => rag.vector_store.built
         /\ rag' = [rag EXCEPT
              !.log = Append(@, [op |-> "retrieve", arg |-> query,
                                 raised |-> invoke_raises,
                                 ret |-> IF ~rag.vector_store.built \/ invoke_raises
                                         THEN {} ELSE rag.vector_store.docs])]
    /\ UNCHANGED <<mainVars, flt, nrm, scr, bat, tool, ddg>>

\* RAGManager()
InitRag ==
    /\ Parked
    /\ DdgIdle
    /\ FilterIdle
    /\ UrlIdle
    /\ ScrapeIdle
    /\ BatchIdle
    /\ ToolIdle
    /\ rag = [pc |-> "ready", vector_store |-> NoStore, log |-> <<>>]

NextRag == IngestText \/ Retrieve

RagSpec == InitRag /\ [][NextRag]_vars

\* ------------------------------------------- web_search.search_duckduckgo
\* One call: the provider is constructed, yields at most num_results items and
\* ends, and may raise at each of these points. An item is a mapping in which a
\* key may be missing (None here).

\* what ddgs.text yields
ProviderItems ==
    { [title |-> "T", href |-> "u", body |-> "b"],
      [title |-> None, href |-> "v", body |-> None],
      [title |-> "T", href |-> None, body |-> "b"] }

\* r.get(key, "")
Get(value) == IF value = None THEN "" ELSE value

\* the entry appended for an item
Result(r) == [title |-> Get(r.title), url |-> Get(r.href), snippet |-> Get(r.body)]

\* fault: a failure of the provider discards what was built
SearchReturn_Nothing(results, failed) == IF failed = "no" THEN results ELSE <<>>

\* `return results`, after the try statement
SearchReturn(results, failed) == results

\* `with DDGS() as ddgs` and the call of ddgs.text, either of which may raise
DdgOpen ==
    /\ ddg.pc = "call"
    /\ \E raises \in BOOLEAN :
         ddg' = IF raises
                THEN [ddg EXCEPT !.pc = "returned", !.failed = "open",
                                 !.ret = SearchReturn(ddg.results, "open")]
                ELSE [ddg EXCEPT !.pc = "iterate"]
    /\ UNCHANGED <<mainVars, flt, nrm, scr, bat, tool, rag>>

\* one turn of `for r in ddgs.text(...)`
DdgYield ==
    /\ ddg.pc = "iterate"
    /\ Len(ddg.provided) < ddg.num_results
    /\ \E r \in ProviderItems :
         ddg' = [ddg EXCEPT !.provided = Append(@, r),
                            !.results = Append(@, Result(r))]
    /\ UNCHANGED <<mainVars, flt, nrm, scr, bat, tool, rag>>

\* the iteration ends, or raises into `except Exception`
DdgEnd ==
    /\ ddg.pc = "iterate"
    /\ \E raises \in BOOLEAN :
         LET failed == IF raises THEN "iterate" ELSE "no"
         IN  ddg' = [ddg EXCEPT !.pc = "returned", !.failed = failed,
                                !.ret = SearchReturn(ddg.results, failed)]
    /\ UNCHANGED <<mainVars, flt, nrm, scr, bat, tool, rag>>

\* search_duckduckgo(query, num_results): `results = []`
InitDdg ==
    /\ Parked
    /\ FilterIdle
    /\ UrlIdle
    /\ ScrapeIdle
    /\ BatchIdle
    /\ ToolIdle
    /\ RagIdle
    /\ \E num_results \in 1..MaxResults :
         ddg = [pc |-> "call", num_results |-> num_results, provided |-> <<>>,
                results |-> <<>>, failed |-> "no", ret |-> <<>>]

NextDdg == DdgOpen \/ DdgYield \/ DdgEnd

DdgSpec == InitDdg /\ [][NextDdg]_vars

\* ------------------------------------------------ what a run left behind

Tokens(log) == SelectSeq(log, LAMBDA s : s.type = "new_token")
Terminals(log) == SelectSeq(log, LAMBDA s : IsTerminal(s))

RECURSIVE Join(_)
Join(texts) == IF texts = <<>> THEN <<>> ELSE Head(texts) \o Join(Tail(texts))

\* the concatenation of the new_token texts of a log, in emission order
TokenText(log) == Join([i \in 1..Len(Tokens(log)) |-> Tokens(log)[i].text])

LastOf(log) == log[Len(log)]

Made(name) == \E i \in 1..Len(calls) : calls[i] = name

\* ------------------------------------------------ properties of the worker

\* C1: every started run of OllamaWorker.run, whatever the strategy and whether a
\* stage fails or a stop is requested, eventually emits a terminal signal (finished
\* or stopped), and emits exactly one, the streams it consumes being finite.
C1_OneTerminal ==
    /\ [](Len(Terminals(emitted)) <= 1)
    /\ [](pc = "done" <=> Len(Terminals(emitted)) = 1)
    /\ <>(pc = "done")

\* a RAG run that fell back to the agent, whose stream raised, has ended on its one
\* terminal signal
C1_Witness ==
    /\ pc = "done"
    /\ via_rag
    /\ stream_end = "raise"
    /\ Len(Terminals(emitted)) = 1

\* C2: once a run has emitted its terminal signal it emits no new_token and no
\* status_update: a terminal signal is the last signal of the run.
C2_TerminalIsLast ==
    \A i \in 1..Len(emitted) : IsTerminal(emitted[i]) => i = Len(emitted)

\* a run stopped in mid-stream, after a token
C2_Witness ==
    /\ pc = "done"
    /\ Tokens(emitted) # <<>>
    /\ LastOf(emitted) = Stopped
    /\ Len(emitted) >= 3

\* C3: a stop flag already set when run begins gives, for every strategy and every
\* behaviour of the model, a run that ends on stopped and emits no new_token.
C3_StopBeforeRun ==
    (stop_at.start = "set" /\ pc = "done")
        => (LastOf(emitted) = Stopped /\ Tokens(emitted) = <<>>)

\* C4: run takes the vision branch when an image path is set; otherwise the RAG
\* branch when web search is enabled and the user text has a character other than
\* white space; otherwise the agent branch; and the calls of one branch alone are
\* made.
C4_Selection ==
    strategy # "none" =>
        /\ Truthy(image_path) => strategy = "vision"
        /\ (~Truthy(image_path) /\ web_search_enabled
              /\ \E i \in 1..Len(user_text) : user_text[i] # " ") => strategy = "rag"
        /\ (~Truthy(image_path)
              /\ ~(web_search_enabled /\ \E i \in 1..Len(user_text) : user_text[i] # " "))
             => strategy = "agent"
        /\ strategy = "vision" => \A i \in 1..Len(calls) : calls[i] = "ollama.chat"
        /\ strategy = "agent"
             => \A i \in 1..Len(calls) : calls[i] \in { "build_agent", "agent.stream" }
        /\ strategy = "rag"
             => /\ ~Made("ollama.chat")
                /\ calls # <<>> => calls[1] = "improve_search_query"
                /\ Made("build_agent") => via_rag

\* web search enabled with a blank text and an empty image path: the agent ran
C4_Witness ==
    /\ pc = "done"
    /\ strategy = "agent"
    /\ web_search_enabled
    /\ user_text = <<" ">>
    /\ image_path = ""
    /\ Made("agent.stream")

\* send_message, with some text in the field, changes something
SendChanges == (\E input \in Texts : SendMessage(input)) /\ vars' # vars

\* C5: send_message called while a run is active (is_processing) starts no worker
\* and changes no field of the window, the history and the response buffer
\* included: no call of it changes anything; and at no time are two workers
\* started and short of their terminal signal.
C5_OneActiveRun ==
    /\ is_processing => ~ENABLED SendChanges
    /\ active <= 1

\* a run in mid-stream with part of its response received, the transcript short
\* enough for one more message
C5_Witness ==
    /\ is_processing
    /\ active = 1
    /\ pc = "a_stream"
    /\ full_response_buffer # <<>>
    /\ Len(history) < MaxHistory

\* the AI messages of the agent's stream that carry tool calls
ToolTurns ==
    { i \in 1..Len(yielded) : yielded[i].type = "ai" /\ yielded[i].tool_calls # <<>> }

\* an agent run, not stopped, whose model answered every dispatch with tool calls
ToolLoop ==
    /\ strategy = "agent"
    /\ ~via_rag
    /\ pc = "done"
    /\ ToolTurns # {}
    /\ \A i \in 1..Len(yielded) : yielded[i] \in ToolLoopChunks
    /\ LastOf(emitted) # Stopped

C7_Checkpoints ==
    /\ stop_at.rewrite = "set"
         => /\ ~Made("search_duckduckgo")
            /\ LastOf(emitted) = Stopped
    /\ stop_at.search = "set"
         => /\ ~Made("filter_search_results")
            /\ ~Made("scrape_urls")
            /\ LastOf(emitted) = Stopped
    /\ stop_at.fetch = "set"
         => /\ ~Made("ingest_text")
            /\ ~Made("retrieve")
            /\ ~Made("ChatOllama")
            /\ ~Made("chat.stream")
            /\ LastOf(emitted) = Stopped

\* C8: when the search of a RAG run returns no result the run falls back to the
\* agent after the token 'No search results found.', makes no filter, fetch,
\* ingest, retrieval or generation call, and, the agent's stream ending normally
\* with no stop requested, ends on finished.
C8_NoResultsFallback ==
    found = "empty"
        => /\ via_rag
           /\ pc \in { "a_build", "a_stream", "done" }
           /\ Tokens(emitted) # <<>>
           /\ Tokens(emitted)[1] = NewToken(<<"No search results found.">>)
           /\ ~Made("filter_search_results")
           /\ ~Made("scrape_urls")
           /\ ~Made("ingest_text")
           /\ ~Made("retrieve")
           /\ ~Made("ChatOllama")
           /\ (pc = "done" /\ stream_end = "end" /\ ~stop_requested)
                => LastOf(emitted) = Finished("elapsed", token_count)

\* the fallback agent answered with text and the run finished
C8_Witness ==
    /\ found = "empty"
    /\ pc = "done"
    /\ stream_end = "end"
    /\ ~stop_requested
    /\ Len(Tokens(emitted)) = 3

\* ------------------------------------------------ properties of the window

\* the text of the model's messages, in stream order
ModelText == Join([i \in 1..Len(yielded) |-> yielded[i].content])

\* an agent run (tool-use mode) whose stream was plain text alone and ended
PlainRun ==
    /\ strategy = "agent"
    /\ ~via_rag
    /\ pc = "done"
    /\ stream_end = "end"
    /\ \A i \in 1..Len(yielded) : yielded[i].type = "ai" /\ yielded[i].tool_calls = <<>>

\* C9: in tool-use mode, the model returning plain text and no tool call, the
\* tokens concatenated in emission order are the model's text, the terminal signal
\* is finished, and once it is handled the transcript is the one sent plus one
\* assistant turn with that text.
C9_PlainText ==
    PlainRun
        => /\ TokenText(emitted) = ModelText
           /\ LastOf(emitted) = Finished("elapsed", Len(Tokens(emitted)))
           /\ queue = <<>>
                => /\ ~is_processing
                   /\ history = Append(sent, [role |-> "assistant", content |-> ModelText])

\* a text that came in two fragments, delivered and finalized
C9_Witness ==
    /\ PlainRun
    /\ queue = <<>>
    /\ Len(Tokens(emitted)) = 2
    /\ LastOf(history) = [role |-> "assistant", content |-> <<"a", "a">>]

\* the window has handled the stopped signal of the run
StoppedHandled ==
    /\ pc = "done"
    /\ LastOf(emitted) = Stopped
    /\ queue = <<>>

Extends(a, b) ==
    /\ Len(a) <= Len(b)
    /\ \A i \in 1..Len(a) : b[i] = a[i]

\* a step in which new_chat replaced the transcript
Reset == ~is_processing /\ NewChat

\* C11 as stated: whatever the window does (send_message, the handling of tokens,
\* statuses and terminal signals, force stop, the settings dialog, new_chat), the
\* first turn of the transcript is the system turn, and but for the resets of
\* new_chat every step leaves each turn of the transcript in place and unchanged.
C11_AppendOnly ==
    [][/\ history[1].role = "system"
       /\ history'[1].role = "system"
       /\ Reset \/ Extends(history, history')]_vars

\* C11 as amended: the first turn is the system turn, and but for the resets of
\* new_chat a step either leaves each turn in place and unchanged, or is the
\* settings dialog accepted while no run is active and the transcript is the system
\* turn alone: the content of that turn becomes the prompt just saved.
C11_AppendOrNewPrompt ==
    [][/\ history[1].role = "system"
       /\ history'[1].role = "system"
       /\ \/ Reset
          \/ Extends(history, history')
          \/ /\ ~is_processing
             /\ Len(history) = 1
             /\ history' = <<[role |-> "system", content |-> app_settings']>>]_vars

\* the prompt was changed in a new chat, and an exchange was then appended to the
\* transcript under the new system turn
C11_Witness ==
    /\ Len(history) = 3
    /\ history[1] = [role |-> "system", content |-> <<"alt">>]
    /\ history[3].role = "assistant"
    /\ ~is_processing

\* C12: new_chat, called while no run is active, leaves a transcript of exactly one
\* system turn that carries the current system prompt, an empty response buffer,
\* no pending image and no current AI bubble.
C12_NewChatResets ==
    [][Reset
         => /\ history' = <<[role |-> "system", content |-> app_settings']>>
            /\ app_settings' = app_settings
            /\ full_response_buffer' = <<>>
            /\ pending_image_path' = None
            /\ current_ai_bubble' = None]_vars

\* an exchange under a changed prompt is over, an image is pending, and new_chat
\* takes this to the one system turn with that prompt
C12_Witness ==
    /\ ~is_processing
    /\ Len(history) = 3
    /\ app_settings = <<"alt">>
    /\ history[1].content = <<"sys">>
    /\ full_response_buffer # <<>>
    /\ pending_image_path = "/img.png"
    /\ current_ai_bubble # None
    /\ ENABLED (NewChat /\ history' = <<[role |-> "system", content |-> <<"alt">>]>>)

C14_RequestUntouched ==
    active = 1
        => /\ history = sent
           /\ <<image_path, user_text, web_search_enabled, system_prompt>> = sent_args

\* a run under a changed prompt is in mid-stream, a stop requested
C14_Witness ==
    /\ active = 1
    /\ pc = "r_stream"
    /\ yielded # <<>>
    /\ stop_requested
    /\ system_prompt = <<"alt">>
    /\ history = sent

\* the tokens by which the worker reports an exception
ErrorTokens ==
    { NewToken(<<"\n\n**System Error:** e">>), NewToken(<<"Agent Error: e">>),
      NewToken(<<"RAG Generation Error: e">>), NewToken(<<"Vision error: e">>) }

\* a run that ended because an external call raised: build_agent, ChatOllama,
\* ollama.chat, or a stream in mid-iteration
Raised ==
    /\ pc = "done"
    /\ calls # <<>>
    /\ stream_end = "raise" \/ LastOf(calls) \in { "build_agent", "ChatOllama" }

\* what the run had streamed as tokens when the call raised
Streamed ==
    (IF found = "empty" THEN <<"No search results found.">> ELSE <<>>)
    \o Join([i \in 1..Len(yielded) |->
               IF yielded[i].type = "ai" /\ yielded[i].tool_calls = <<>>
               THEN yielded[i].content ELSE <<>>])

Filtered == flt.pc \in { "returned", "chosen" }

\* the positions whose judgment was a YES in any case and with any padding, or
\* whose call raised
YesOrFailed ==
    { i \in 1..Len(flt.answers) :
        \/ flt.answers[i].raises
        \/ flt.answers[i].response \in { <<"Y", "E", "S">>, <<" ", "y", "e", "s", ".">> } }

\* C16: filter_search_results, given at most 2 results, returns the list it was
\* given and makes no relevance call.
C16_ShortListUntouched ==
    (Filtered /\ Len(flt.results) <= 2)
        => /\ flt.ret = flt.results
           /\ flt.answers = <<>>

\* two results came back as they were
C16_Witness ==
    /\ flt.pc = "returned"
    /\ flt.results = <<1, 2>>
    /\ flt.ret = <<1, 2>>

\* C17: filter_search_results, given more than 2 results, makes one judgment per
\* item and returns the subsequence, in input order, of the items judged YES or
\* whose call raised; an item judged NO is never returned, and a failed judgment
\* does not make the function raise: it returns.
C17_YesOrFailedKept ==
    /\ (Filtered /\ Len(flt.results) > 2)
         => /\ Len(flt.answers) = Len(flt.results)
            /\ flt.ret = Pick(flt.results, YesOrFailed)
            /\ flt.ret = FilterSearchResults(flt.results, YesOrFailed)
            /\ \A j \in 1..Len(flt.ret) : \A k \in 1..Len(flt.ret) :
                 j < k => flt.ret[j] < flt.ret[k]
            /\ \A i \in 1..Len(flt.answers) :
                 (~flt.answers[i].raises /\ flt.answers[i].response = <<"N", "O">>)
                     => \A j \in 1..Len(flt.ret) : flt.ret[j] # flt.results[i]
    /\ (flt.pc = "loop" /\ flt.answers # <<>> /\ LastOf(flt.answers).raises)
         => ENABLED (FilterJudge \/ FilterReturn)

\* of three results the first was judged NO, the call for the second raised and the
\* third was judged yes: the last two were returned
C17_Witness ==
    /\ flt.pc = "returned"
    /\ Len(flt.results) = 3
    /\ flt.answers[1] = [raises |-> FALSE, response |-> <<"N", "O">>]
    /\ flt.answers[2].raises
    /\ flt.answers[3] = [raises |-> FALSE, response |-> <<" ", "y", "e", "s", ".">>]
    /\ flt.ret = <<2, 3>>

\* the first three elements of a list, or all of a shorter list
FirstThree(x) == [j \in 1..(IF Len(x) < 3 THEN Len(x) ELSE 3) |-> x[j]]

\* C18: in a RAG run whose search returned results, the URLs carried forward are at
\* least 1 and at most 3: the first three of the filtered results when the filter
\* kept any, the first three of the unfiltered results otherwise.
C18_OneToThreeUrls ==
    flt.pc = "chosen"
        => /\ Len(flt.urls) >= 1
           /\ Len(flt.urls) <= 3
           /\ flt.urls = (IF flt.ret # <<>> THEN FirstThree(flt.ret)
                          ELSE FirstThree(flt.results))

\* four results, none kept by the filter: the first three of the four go forward
C18_Witness ==
    /\ flt.pc = "chosen"
    /\ Len(flt.results) = 4
    /\ flt.ret = <<>>
    /\ flt.urls = <<1, 2, 3>>

\* ------------------------------------------------ properties of normalize_url

\* the scheme the URL was written with, in lower case, when it is http or https
WebScheme ==
    CASE nrm.parts.scheme \in { "http", "HTTP" }   -> "http"
      [] nrm.parts.scheme \in { "https", "HTTPS" } -> "https"
      [] OTHER                                     -> ""

\* the path the URL was written with ends in an asset extension, in any case
AssetPath ==
    /\ nrm.parts.path # <<>>
    /\ LastOf(nrm.parts.path) \in SkipExt \cup { ".PNG", ".Js" }

\* C19: normalize_url(url, domain) returns scheme://host/path, the query string
\* and the fragment removed, when the scheme is http or https, the host (the network
\* location of the URL) equals domain and the path does not end in one of the asset
\* extensions, whatever their case; it returns None in every other case; and
\* applied to a URL it returned it returns that URL.
C19_Normalized ==
    nrm.pc \in { "returned", "again" }
        => /\ nrm.ret = (IF /\ WebScheme # ""
                            /\ nrm.parts.netloc = nrm.domain
                            /\ ~AssetPath
                         THEN <<WebScheme, "://">> \o nrm.parts.netloc \o nrm.parts.path
                         ELSE NoUrl)
           /\ nrm.pc = "again" => nrm.again = nrm.ret

\* an HTTPS URL with a port, a path, parameters, a query and a fragment was cut
\* down to scheme, host and path, and came back the same the second time
C19_Witness ==
    /\ nrm.pc = "again"
    /\ nrm.url = <<"HTTPS", "://", "ex.com", ":80", "/", "a", ".js", "on", ";", "p",
                   "?", "q", ".png", "#", "f">>
    /\ nrm.ret = <<"https", "://", "ex.com", ":80", "/", "a", ".js", "on">>
    /\ nrm.again = nrm.ret

\* ------------------------------------------------ properties of the scraper

\* C20: scrape_site, the site's pages and links being finitely many, terminates; it
\* returns only once max_pages_per_site pages are collected or the queue holds no
\* candidate; its mapping never holds more than max_pages_per_site pages; and every
\* page was fetched while fewer than max_pages_per_site pages were collected.
C20_BoundedCrawl ==
    /\ [](Cardinality(scr.site_results) <= scr.max_pages_per_site)
    /\ [](\A i \in 1..Len(scr.fetched) : scr.fetched[i].had < scr.max_pages_per_site)
    /\ [](scr.pc = "returned"
            => \/ Cardinality(scr.site_results) = scr.max_pages_per_site
               \/ scr.queue = <<>>)
    /\ <>(scr.pc = "returned")

\* the second page asked for was collected at the third fetch, a candidate still
\* queued, and the call returned
C20_Witness ==
    /\ scr.pc = "returned"
    /\ scr.max_pages_per_site = 2
    /\ Cardinality(scr.site_results) = 2
    /\ Len(scr.fetched) = 3
    /\ scr.queue # <<>>

\* the URL `url` is the href `h` cut before its parameters, query or fragment
CutFrom(url, h) ==
    /\ Len(url) <= Len(h)
    /\ SubSeq(h, 1, Len(url)) = url
    /\ Len(h) > Len(url) => h[Len(url) + 1] \in { ";", "?", "#" }
    /\ \A i \in 1..Len(url) : url[i] \notin { ";", "?", "#" }

\* the URL is an http or https URL of the seed's host
OnSite(url) ==
    /\ Len(url) >= 2 + Len(scr.domain)
    /\ url[1] \in { "http", "https" }
    /\ url[2] = "://"
    /\ SubSeq(url, 3, 2 + Len(scr.domain)) = scr.domain
    /\ Len(url) > 2 + Len(scr.domain) => url[3 + Len(scr.domain)] = "/"

\* C21: scrape_site follows no cross-domain link: every URL it fetches, the seed
\* fetched first apart, is a body link the loop read on a page fetched before and
\* queued, cut to scheme, host and path, of scheme http or https, of the seed's host and with no
\* asset extension; and a link of a header or footer is never fetched or queued.
C21_SameSiteBodyLinks ==
    /\ \A i \in 2..Len(scr.fetched) :
         LET url == scr.fetched[i].url IN
         /\ \E h \in scr.origin \cap Hrefs : CutFrom(url, h)
         /\ OnSite(url)
         /\ LastOf(url) \notin SkipExt
    /\ \A i \in 1..Len(scr.fetched) : ~CutFrom(scr.fetched[i].url, NavHref)
    /\ \A i \in 1..Len(scr.queue) : ~CutFrom(scr.queue[i][2], NavHref)

\* two pages of the site were fetched after the seed, one found as a link with a
\* query and one as a link with a fragment
C21_Witness ==
    /\ Len(scr.fetched) = 3
    /\ scr.origin = { <<"http", "://", "ex.com", "/", "a", "?", "q">>,
                      <<"http", "://", "ex.com", "/", "b", "#", "f">> }
    /\ scr.fetched[2].url = <<"http", "://", "ex.com", "/", "a">>
    /\ scr.fetched[3].url = <<"http", "://", "ex.com", "/", "b">>

SearchReturned == tool.pc = "returned" /\ tool.name = "search_files"

\* the lines of the listing's readable files that hold the character c
LinesWith(c) ==
    { <<i, n>> \in (1..Len(tool.listing)) \X (1..2) :
        /\ tool.listing[i].kind = "file"
        /\ tool.listing[i].readable
        /\ n <= Len(tool.listing[i].lines)
        /\ \E k \in 1..Len(tool.listing[i].lines[n]) : tool.listing[i].lines[n][k] = c }

\* the lines the text returned lists
LinesListed ==
    { <<tool.ret.text.items[k].result.file, tool.ret.text.items[k].result.line_num>> :
        k \in 1..Len(tool.ret.text.items) }

\* C23: search_files returns a text for every input: the 'not a valid directory'
\* message for a path that is no directory, the 'empty pattern' message for a
\* blank pattern, the lines holding the pattern itself for a pattern that is no
\* regular expression, no line of a file that cannot be opened while the other
\* files are still searched, and 'No matches found' when no line matches.
C23_SearchNeverRaises ==
    SearchReturned =>
        /\ tool.ret.text.kind \in { "Error during search: ", "Error: not a valid directory",
                                    "Error: Search pattern cannot be empty.",
                                    "No matches found for pattern", "Search results:" }
        /\ tool.path = "file" => tool.ret.text.kind = "Error: not a valid directory"
        /\ (tool.path = "dir" /\ tool.pattern = " ")
             => tool.ret.text.kind = "Error: Search pattern cannot be empty."
        /\ (tool.path = "dir" /\ tool.pattern \in { "(", "a" })
             => /\ LinesListed \subseteq LinesWith(tool.pattern)
                /\ Len(tool.ret.text.items)
                     = IF Cardinality(LinesWith(tool.pattern)) < tool.max_results
                       THEN Cardinality(LinesWith(tool.pattern)) ELSE tool.max_results
                /\ (LinesWith(tool.pattern) = {})
                     = (tool.ret.text.kind = "No matches found for pattern")
        /\ (tool.path = "dir" /\ tool.pattern \notin { None, " " } /\ tool.listing = <<>>)
             => tool.ret.text.kind = "No matches found for pattern"

\* the pattern is no regular expression, the first file cannot be opened, and the
\* line of the second file that holds the pattern is listed
C23_Witness ==
    /\ SearchReturned
    /\ tool.pattern = "("
    /\ Len(tool.listing) = 2
    /\ tool.listing[1].kind = "file" /\ ~tool.listing[1].readable
    /\ LinesListed = { <<2, 2>> }

\* C24 as stated: the text search_files or find_files returns for max_results >= 1 lists at
\* most max_results entries, numbered from 1 on in the order found, and the walk
\* takes no entry after the one at which max_results entries were collected.
C24_BoundedResult ==
    (tool.pc = "returned" /\ tool.name \in { "search_files", "find_files" })
        => LET items == tool.ret.text.items
           IN  /\ Len(items) <= tool.max_results
               /\ \A k \in 1..Len(items) : items[k].index = k
               /\ \A k \in 1..Len(items) : \A l \in 1..Len(items) :
                    k < l => \/ items[k].result.file < items[l].result.file
                             \/ /\ items[k].result.file = items[l].result.file
                                /\ items[k].result.line_num < items[l].result.line_num
               /\ tool.ret.walk.full_at > 0
                    => tool.ret.walk.walked = tool.ret.walk.full_at

\* C24 as amended: the text lists at most max_results entries, numbered from 1 on
\* in the order found; once max_results entries are collected no further line is
\* listed and no further file is opened; find_files takes no further entry, while
\* search_files still takes the entries that are no files and the next file, if
\* there is one, which it counts and does not open.
C24_BoundedNoFurtherFile ==
    (tool.pc = "returned" /\ tool.name \in { "search_files", "find_files" })
        => LET items == tool.ret.text.items
               walk == tool.ret.walk
           IN  /\ Len(items) <= tool.max_results
               /\ \A k \in 1..Len(items) : items[k].index = k
               /\ \A k \in 1..Len(items) : \A l \in 1..Len(items) :
                    k < l => \/ items[k].result.file < items[l].result.file
                             \/ /\ items[k].result.file = items[l].result.file
                                /\ items[k].result.line_num < items[l].result.line_num
               /\ walk.full_at > 0 =>
                    /\ Len(items) = tool.max_results
                    /\ items[Len(items)].result.file = walk.full_at
                    /\ \A k \in 1..Len(walk.opened) : walk.opened[k] <= walk.full_at
                    /\ tool.name = "find_files" => walk.walked = walk.full_at
                    /\ \A i \in (walk.full_at + 1)..(walk.walked - 1) :
                         tool.listing[i].kind # "file"
                    /\ (walk.walked < Len(tool.listing) /\ walk.walked > walk.full_at)
                         => tool.listing[walk.walked].kind = "file"

\* search_files collected the one entry asked for in the first file, passed over
\* a directory, and left the loop at the third entry, a file it did not open
C24_Witness ==
    /\ tool.pc = "returned"
    /\ tool.name = "search_files"
    /\ tool.max_results = 1
    /\ Len(tool.listing) = 3
    /\ tool.listing[2].kind = "dir"
    /\ tool.listing[3].kind = "file" /\ tool.listing[3].readable
    /\ tool.ret.walk.full_at = 1
    /\ tool.ret.walk.walked = 3
    /\ tool.ret.walk.opened = <<1>>
    /\ Len(tool.ret.text.items) = 1

\* C25: execute_tool returns, for search_files and for find_files, what that
\* function returns for the arguments, and for any other name the text
\* 'Unknown tool: <name>', no directory being walked and no file opened.
C25_DispatchByName ==
    (tool.pc = "returned" /\ tool.via = "execute_tool") =>
        /\ tool.name = "search_files"
             => tool.ret = SearchFiles(tool.pattern, tool.path, tool.listing,
                                       tool.max_results)
        /\ tool.name = "find_files"
             => tool.ret = FindFiles(tool.pattern, tool.path, tool.listing,
                                     tool.max_results)
        /\ tool.name \notin { "search_files", "find_files" }
             => /\ tool.ret.text = Message("Unknown tool: ", tool.name)
                /\ tool.ret.walk = NoWalk

\* execute_tool was called with a name that is no tool, on a directory holding a
\* file with a line that the pattern matches
C25_Witness ==
    /\ tool.pc = "returned"
    /\ tool.via = "execute_tool"
    /\ tool.name = "grep"
    /\ tool.path = "dir"
    /\ tool.pattern = "a"
    /\ LinesWith("a") # {}
    /\ tool.ret.text.kind = "Unknown tool: "

\* C26: ingest_text returns False for an empty mapping, for texts that give no
\* chunk and when the embedding fails, and returns in every case; and as long as
\* no ingest_text has returned True, retrieve returns the empty string.
C26_IngestFalseRetrieveEmpty ==
    \A n \in 1..Len(rag.log) :
        LET call == rag.log[n] IN
        /\ call.op = "ingest_text" =>
             /\ call.ret \in { "True", "False" }
             /\ DOMAIN call.arg = {} => call.ret = "False"
             /\ (\A s \in DOMAIN call.arg : call.arg[s] = <<>>) => call.ret = "False"
             /\ call.raised => call.ret = "False"
        /\ (/\ call.op = "retrieve"
            /\ \A m \in 1..(n - 1) : rag.log[m].op = "ingest_text" => rag.log[m].ret = "False")
             => call.ret = {}

\* ingest_text({}) gave False, an ingest_text whose embedding failed gave False,
\* and retrieve('x') then gave the empty string
C26_Witness ==
    /\ Len(rag.log) = 3
    /\ rag.log[1].op = "ingest_text" /\ rag.log[1].arg = <<>> /\ rag.log[1].ret = "False"
    /\ rag.log[2].op = "ingest_text" /\ rag.log[2].raised /\ rag.log[2].ret = "False"
    /\ rag.log[3].op = "retrieve" /\ rag.log[3].arg = "x" /\ rag.log[3].ret = {}

\* C27: a RAG run whose search found results does not stop on missing content:
\* when the fetch returns no page, ingest_text returns False or retrieve returns
\* the empty string, the context at the generation step is the placeholder (it is
\* never empty), the generation call is the step the worker takes from there, and
\* the run goes on to its terminal signal.
C27_PlaceholderContext ==
    /\ [](pc = "r_gen" =>
            /\ context # <<>>
            /\ (~Made("ingest_text") \/ ~Made("retrieve")) => context = PLACEHOLDER)
    /\ [][(pc = "r_gen" /\ pc' # "r_gen")
             => (pc' \in { "r_stream", "done" } /\ Made("ChatOllama")')]_vars
    /\ (pc = "r_gen" /\ context = PLACEHOLDER)
         ~> (pc = "done" /\ Len(Terminals(emitted)) = 1)

\* no page was read, the answer was generated all the same and the run finished
C27_Witness ==
    /\ pc = "done"
    /\ Made("scrape_urls")
    /\ ~Made("ingest_text")
    /\ Made("chat.stream")
    /\ Tokens(emitted) # <<>>
    /\ LastOf(emitted).type = "finished"
    /\ stream_end = "end"

\* C28: search_duckduckgo always returns: whether the provider fails when it is
\* constructed, fails while it is iterated or ends, the call returns the list of
\* the entries for the items yielded until then, which is the empty list when the
\* provider failed before it yielded anything; and the test a RAG run makes of its
\* results holds of that empty list as of any empty result set.
C28_SearchNeverRaises ==
    /\ ddg.pc \in { "call", "iterate" } => ENABLED (DdgOpen \/ DdgEnd)
    /\ ddg.pc = "returned" =>
         /\ ddg.ret = [i \in 1..Len(ddg.provided) |-> Result(ddg.provided[i])]
         /\ ddg.failed = "open" => ddg.ret = <<>>
         /\ (ddg.failed # "no" /\ ddg.provided = <<>>) => ddg.ret = <<>>
         /\ NoResults(ddg.ret) = (ddg.provided = <<>>)

\* the provider failed after it had yielded two items, an entry for each of which
\* was returned
C28_Witness ==
    /\ ddg.pc = "returned"
    /\ ddg.failed = "iterate"
    /\ Len(ddg.ret) = 2
    /\ ddg.ret[2].title = ""

\* C29: no sequence of window actions (toggling web search, attaching or clearing
\* an image, sending, starting a new chat) leaves an image attached while web
\* search is enabled.
C29_NoWebWithImage == ~(Truthy(pending_image_path) /\ is_web_enabled)

\* the tool calls of the messages the agent's stream has yielded: message, call
ToolCallsYielded ==
    UNION { { <<i, j>> : j \in 1..Len(yielded[i].tool_calls) } : i \in 1..Len(yielded) }

\* the status signals that name a tool
ExecutingAt ==
    { i \in 1..Len(emitted) : /\ emitted[i].type = "status_update"
                              /\ Len(emitted[i].text) = 3
                              /\ emitted[i].text[1] = "*Executing "
                              /\ emitted[i].text[2] \in ToolNames }

\* C30: in an agent run, no stop being requested, as many status signals naming a
\* tool are emitted as the messages yielded carry tool calls, each when its
\* message is taken from the stream and so before the tool result that follows,
\* and the only tokens carrying model text are those of the messages without tool
\* calls.
C30_StatusPerToolCall ==
    (strategy = "agent" /\ ~stop_requested) =>
        /\ Cardinality(ExecutingAt) = Cardinality(ToolCallsYielded)
        /\ Cardinality({ i \in 1..Len(emitted) : /\ emitted[i].type = "new_token"
                                                 /\ emitted[i].text \in Contents })
             = Cardinality({ i \in 1..Len(yielded) : /\ yielded[i].type = "ai"
                                                     /\ yielded[i].tool_calls = <<>>
                                                     /\ yielded[i].content # <<>> })

\* C31: the vision strategy makes one call, of the vision model, with one message:
\* the user's text, or 'Describe this image.' when the text is blank, and the
\* image, no turn of the history; each fragment streamed is emitted as one token,
\* in stream order; and the count reported on normal completion is the number of
\* fragments streamed.
C31_VisionOneTurn ==
    (strategy = "vision" /\ Made("ollama.chat")) =>
        LET request == VisionRequest(user_text, image_path) IN
        /\ calls = <<"ollama.chat">>
        /\ request.model = "vision_model_name"
        /\ Len(request.messages) = 1
        /\ request.messages[1].role = "user"
        /\ request.messages[1].images = <<image_path>>
        /\ request.messages[1].content
             = (IF \E i \in 1..Len(user_text) : user_text[i] # " "
                THEN user_text ELSE <<"Describe this image.">>)
        /\ \A i \in 1..Len(request.messages) : request.messages[i].role # "assistant"
        /\ stop_at.start # "set" /\ ~stop_requested /\ stream_end # "raise"
             => Tokens(emitted) = [i \in 1..Len(yielded) |-> NewToken(yielded[i].content)]
        /\ (pc = "done" /\ stream_end = "end")
             => /\ Tokens(emitted) = [i \in 1..Len(yielded) |-> NewToken(yielded[i].content)]
                /\ LastOf(emitted) = Finished("elapsed", Len(yielded))

\* a worker given an exchange, an image and a blank text has streamed two
\* fragments and finished
C31_Witness ==
    /\ strategy = "vision"
    /\ sent # <<>>
    /\ user_text = <<" ">>
    /\ pc = "done"
    /\ stream_end = "end"
    /\ Len(yielded) = 2
    /\ yielded[1] # yielded[2]

\* C32: scrape_site goes through its queue by rank: the seed, of rank 0, is fetched
\* first; every candidate queued after it has rank 1; each fetch takes the
\* candidate queued earliest and the links found on its page are queued behind
\* those found on the pages before, so that a link found on an earlier page is
\* fetched before a link found only on a later page.
C32_FetchedInQueueOrder ==
    /\ [](scr.fetched # <<>> => scr.fetched[1].url = scr.start_url)
    /\ [](\A i \in 1..Len(scr.queue) :
            IF scr.fetched = <<>>
            THEN scr.queue[i] = <<0, scr.start_url>>
            ELSE scr.queue[i][1] = 1)
    /\ [][scr.fetched' # scr.fetched
            => /\ Len(scr.fetched') = Len(scr.fetched) + 1
               /\ SubSeq(scr.fetched', 1, Len(scr.fetched)) = scr.fetched
               /\ LastOf(scr.fetched').url = scr.queue[1][2]
               /\ Len(scr.queue') >= Len(scr.queue) - 1
               /\ SubSeq(scr.queue', 1, Len(scr.queue) - 1) = Tail(scr.queue)
               /\ \A i \in Len(scr.queue)..Len(scr.queue') :
                    \A j \in 1..Len(scr.queue) : scr.queue'[i][2] # scr.queue[j][2]]_vars

\* the seed showed two links, both were fetched in the order shown, and a link
\* that only the first of them showed waits behind
C32_Witness ==
    /\ scr.start_url = <<"http", "://", "ex.com", "/">>
    /\ Len(scr.fetched) = 3
    /\ scr.fetched[2].url = <<"http", "://", "ex.com", "/", "b">>
    /\ scr.fetched[3].url = <<"http", "://", "ex.com", "/", "a">>
    /\ scr.queue = << <<1, <<"http", "://", "ex.com", "/", "c">> >> >>

\* what C33 speaks of: the transcript, the response buffer, the web flag, the
\* pending image, the settings, and the worker with all it holds
RunFrame ==
    <<history, full_response_buffer, is_web_enabled, pending_image_path, app_settings,
      window_worker, workerVars>>

\* C33: while a run is active, toggling web search, attaching or clearing an image,
\* the settings dialog and new_chat each leave the transcript, the response
\* buffer, the web flag, the pending image, the settings and the worker unchanged;
\* of the window's handlers only those of a token, a status, a terminal signal and
\* of a stop request change anything.
C33_BusyWindowFrame ==
    [][is_processing
         => /\ ( \/ ToggleWebSearch
                 \/ \E file_path \in { "", "/img.png" } : SelectOrClearFile(file_path)
                 \/ NewChat
                 \/ \E accepted \in BOOLEAN, prompt \in scope.prompts :
                      OpenSettings(accepted, prompt) )
                 => UNCHANGED RunFrame
            /\ <<history, full_response_buffer, is_web_enabled, pending_image_path,
                 app_settings, window_worker, is_processing>>'
                 # <<history, full_response_buffer, is_web_enabled, pending_image_path,
                     app_settings, window_worker, is_processing>>
                 => UpdateStream \/ FinalizeStream \/ OnWorkerStopped
            /\ (WindowStep /\ ~UNCHANGED vars)
                 => \/ UpdateStream \/ UpdateStatus \/ FinalizeStream \/ OnWorkerStopped
                    \/ ForceStop]_vars

\* a run with web search on is in mid-answer under a changed prompt, a token
\* handled and more queued: the four controls are there to be used and change
\* nothing
C33_Witness ==
    /\ is_processing
    /\ is_web_enabled
    /\ app_settings = <<"alt">>
    /\ full_response_buffer # <<>>
    /\ queue # <<>>
    /\ Len(history) = 2
    /\ ENABLED (ToggleWebSearch /\ UNCHANGED vars)
    /\ ENABLED (NewChat /\ UNCHANGED vars)
    /\ ENABLED (SelectOrClearFile("/img.png") /\ UNCHANGED vars)
    /\ ENABLED (OpenSettings(TRUE, <<"sys">>) /\ UNCHANGED vars)

\* C34: is_processing is true exactly from a send_message that started a worker
\* to the handling of that worker's terminal signal: it is true when and only when
\* a worker is short of its terminal signal or that signal waits in the queue, it
\* becomes true only in a send_message that starts a worker and false only in the
\* slot of finished or of stopped; the input controls are enabled exactly when it
\* is false; and, every external call returning, each run started is followed by
\* is_processing false and the controls enabled, a stop requested or not.
C34_ProcessingWindow ==
    /\ [](is_processing <=> (active = 1 \/ Terminals(queue) # <<>>))
    /\ [](controls_enabled <=> ~is_processing)
    /\ [][is_processing' # is_processing
            => IF is_processing'
               THEN /\ \E input \in Texts : SendMessage(input)
                    /\ pc' = "start"
                    /\ active' = active + 1
               ELSE /\ IsTerminal(Head(queue))
                    /\ FinalizeStream \/ OnWorkerStopped]_vars
    /\ is_processing ~> (~is_processing /\ controls_enabled)

\* a run that was asked to stop has ended, its stopped signal is handled and the
\* window takes input again
C34_Witness ==
    /\ handled # <<>>
    /\ LastOf(handled) = Stopped
    /\ stop_requested
    /\ ~is_processing
    /\ controls_enabled
    /\ window_worker # None

\* the transcript as it stood when send_message was called for the run: the
\* worker's history without the user turn that send_message appended
Earlier == SubSeq(sent, 1, Len(sent) - 1)

\* the user and assistant turns of a transcript, as messages
TurnsOf(transcript) ==
    LET turns == SelectSeq(transcript, LAMBDA h : h.role # "system") IN
    [i \in 1..Len(turns) |-> [type |-> IF turns[i].role = "user" THEN "human" ELSE "ai",
                              content |-> turns[i].content]]

\* C35: for a turn sent through send_message, the messages given to the agent's
\* stream, and those given to the RAG generation after its system message, are the
\* earlier user and assistant turns of the transcript in order followed by the new
\* user turn, which appears exactly once.
C35_NewTurnOnce ==
    LET expected == Append(TurnsOf(Earlier), [type |-> "human", content |-> user_text])
    IN  /\ (window_worker # None /\ Made("agent.stream")) => AgentMessages = expected
        /\ (window_worker # None /\ Made("chat.stream"))
             => Tail(RagMessages(<<"rag_prompt">>)) = expected

\* C36: whenever the window is idle, every terminal signal handled, the turns of
\* the transcript other than system turns alternate strictly, user first: each
\* user turn is followed by exactly one assistant turn before the next user turn,
\* after completed, errored and stopped runs alike.
C36_TurnsAlternate ==
    ~is_processing
        => LET turns == SelectSeq(history, LAMBDA h : h.role # "system") IN
           /\ Len(turns) % 2 = 0
           /\ \A i \in 1..Len(turns) :
                turns[i].role = IF i % 2 = 1 THEN "user" ELSE "assistant"

\* C37: on normal completion, the finished signal being the one _emit_completion
\* emits, the token count it carries is the number of new_token signals the run
\* emitted, in every strategy, the RAG run that falls back to the agent included.
C37_CountIsTokens ==
    (pc = "done" /\ LastOf(emitted) = Finished("elapsed", LastOf(emitted).count))
        => LastOf(emitted).count = Len(Tokens(emitted))

\* C38: on one RAGManager, after any sequence of ingest_text and retrieve calls, a
\* retrieve made when the most recent ingest_text returned False returns the empty
\* string.
C38_StaleIngestRetrieveEmpty ==
    \A n \in 1..Len(rag.log) :
        \A m \in 1..(n - 1) :
            (/\ rag.log[n].op = "retrieve"
             /\ rag.log[m].op = "ingest_text"
             /\ rag.log[m].ret = "False"
             /\ \A k \in (m + 1)..(n - 1) : rag.log[k].op # "ingest_text")
                => rag.log[n].ret = {}

\* a URL as normalize_url leaves it: cut before its parameters, query or fragment
Stripped(url) ==
    LET cut == { i \in 1..Len(url) : url[i] \in { ";", "?", "#" } } IN
    IF cut = {} THEN url
    ELSE SubSeq(url, 1, (CHOOSE i \in cut : \A j \in cut : i <= j) - 1)

\* C39: within one scrape_site call no page is fetched twice, URLs being compared
\* after normalization (query string and fragment stripped), the seed that
\* carries a query string or a fragment and is linked from its own page included.
C39_NoPageTwice ==
    \A i \in 1..Len(scr.fetched) : \A j \in 1..Len(scr.fetched) :
        i # j => Stripped(scr.fetched[i].url) # Stripped(scr.fetched[j].url)

\* C40: for any sequence of scrape_urls calls on one WebScraper, the mapping a
\* call returns holds only pages fetched during that call, and at most
\* len(urls) * max_pages_per_site entries.
C40_OnlyThisCall ==
    bat.pc = "returned"
        => /\ bat.ret \subseteq bat.now
           /\ Cardinality(bat.ret) <= Len(bat.urls) * scr.max_pages_per_site

====
